---- MODULE Spec2Model ----
(***************************************************************************)
(* Korean fuzzy search index (HangulIndex) over an Obsidian vault, with    *)
(* the bundled Fuse.js matcher and Hangul.js decomposition it calls.       *)
(*                                                                         *)
(* Strings are sequences of UTF-16 code units (naturals).  Scores of the   *)
(* bitap matcher are exact rationals <<numerator, denominator>>; the       *)
(* relevance scores of HangulIndex are fixed-point numbers in millionths.  *)
(***************************************************************************)
EXTENDS Integers, Sequences, FiniteSets, TLC

(***************************************************************************)
(* Generic sequence helpers (JavaScript string / array primitives).        *)
(***************************************************************************)
Range(s) == { s[i] : i \in 1..Len(s) }

RECURSIVE Concat(_)
\* Array.prototype.join('') over a sequence of strings
Concat(ss) == IF ss = << >> THEN << >> ELSE Head(ss) \o Concat(Tail(ss))

\* String.prototype.indexOf(pattern, from), 0-based, -1 when absent
IndexOfFrom(text, pat, from) ==
    LET cands == { k \in from..(Len(text) - Len(pat)) :
                     SubSeq(text, k + 1, k + Len(pat)) = pat }
    IN IF cands = {} THEN -1
       ELSE CHOOSE k \in cands : \A m \in cands : k <= m

\* String.prototype.includes
Includes(text, pat) == IndexOfFrom(text, pat, 0) > -1

\* String.prototype.toLowerCase on the Latin capitals (other units of the
\* modelled alphabet have no lower-case mapping)
LowerChar(c) == IF c >= 65 /\ c <= 90 THEN c + 32 ELSE c
toLowerCase(s) == [ i \in 1..Len(s) |-> LowerChar(s[i]) ]

\* the white space String.prototype.trim strips
WhiteSpace == { 9, 10, 11, 12, 13, 32, 160, 5760, 8232, 8233, 8239, 8287, 12288, 65279 }
                 \cup (8192..8202)

RECURSIVE trimStart(_)
trimStart(s) == IF s # << >> /\ Head(s) \in WhiteSpace THEN trimStart(Tail(s)) ELSE s

RECURSIVE trimEnd(_)
trimEnd(s) == IF s # << >> /\ s[Len(s)] \in WhiteSpace
              THEN trimEnd(SubSeq(s, 1, Len(s) - 1)) ELSE s

trim(s) == trimEnd(trimStart(s))

\* a value computed once and named in what follows: Let(e, LAMBDA v : body)
Let(v, Body(_)) == Body(v)

RECURSIVE ForEach(_, _, _, _)
\* a loop `for (k = lo; k <= hi; k += 1) acc = Step(acc, k)`, computed by
\* halves: the first half of the range is run to its end, then the second
\* half on what it left (the first guard never holds: it has acc computed
\* before the loop goes on)
ForEach(Step(_, _), acc, lo, hi) ==
    CASE acc # acc -> acc
      [] lo > hi -> acc
      [] lo = hi -> Step(acc, lo)
      [] OTHER -> ForEach(Step, ForEach(Step, acc, lo, (lo + hi) \div 2),
                          ((lo + hi) \div 2) + 1, hi)

\* a statement that has run before the next one starts: the array it leaves
\* is computed, then named in what follows
After(array, Body(_)) == CASE Len(array) >= 0 -> Body(array)

(***************************************************************************)
(* Hangul.js tables and disassemble.                                       *)
(***************************************************************************)
CHO ==
    << 12593, 12594, 12596, 12599, 12600, 12601, 12609, 12610,
       12611, 12613, 12614, 12615, 12616, 12617, 12618, 12619,
       12620, 12621, 12622 >>

JUNG ==
    << <<12623>>, <<12624>>, <<12625>>, <<12626>>, <<12627>>,
       <<12628>>, <<12629>>, <<12630>>, <<12631>>, <<12631, 12623>>,
       <<12631, 12624>>, <<12631, 12643>>, <<12635>>, <<12636>>,
       <<12636, 12627>>, <<12636, 12628>>, <<12636, 12643>>,
       <<12640>>, <<12641>>, <<12641, 12643>>, <<12643>> >>

JONG ==
    << <<>>, <<12593>>, <<12594>>, <<12593, 12613>>, <<12596>>,
       <<12596, 12616>>, <<12596, 12622>>, <<12599>>, <<12601>>,
       <<12601, 12593>>, <<12601, 12609>>, <<12601, 12610>>,
       <<12601, 12613>>, <<12601, 12620>>, <<12601, 12621>>,
       <<12601, 12622>>, <<12609>>, <<12610>>, <<12610, 12613>>,
       <<12613>>, <<12614>>, <<12615>>, <<12616>>, <<12618>>,
       <<12619>>, <<12620>>, <<12621>>, <<12622>> >>

HANGUL_OFFSET == 44032

CONSONANTS ==
    << 12593, 12594, 12595, 12596, 12597, 12598, 12599, 12600,
       12601, 12602, 12603, 12604, 12605, 12606, 12607, 12608,
       12609, 12610, 12611, 12612, 12613, 12614, 12615, 12616,
       12617, 12618, 12619, 12620, 12621, 12622 >>

COMPLETE_CHO == CHO

COMPLETE_JUNG ==
    << 12623, 12624, 12625, 12626, 12627, 12628, 12629, 12630,
       12631, 12632, 12633, 12634, 12635, 12636, 12637, 12638,
       12639, 12640, 12641, 12642, 12643 >>

\* the first element is the empty string, written 0 here; _makeHash skips it
COMPLETE_JONG ==
    << 0, 12593, 12594, 12595, 12596, 12597, 12598, 12599, 12601,
       12602, 12603, 12604, 12605, 12606, 12607, 12608, 12609,
       12610, 12612, 12613, 12614, 12615, 12616, 12618, 12619,
       12620, 12621, 12622 >>

\* _makeHash: code -> 0-based index in the array, with the extra key 0 -> 0;
\* -1 stands for undefined
makeHash(array, c) ==
    IF c = 0 THEN 0
    ELSE IF \E i \in 1..Len(array) : array[i] = c
         THEN (CHOOSE i \in 1..Len(array) : array[i] = c) - 1
         ELSE -1

CONSONANTS_HASH(c) == makeHash(CONSONANTS, c)
CHO_HASH(c) == makeHash(COMPLETE_CHO, c)
JUNG_HASH(c) == makeHash(COMPLETE_JUNG, c)
JONG_HASH(c) == makeHash(COMPLETE_JONG, c)

isConsonant(c) == CONSONANTS_HASH(c) # -1
isCho(c) == CHO_HASH(c) # -1
isJung(c) == JUNG_HASH(c) # -1
isHangul(c) == 44032 <= c /\ c <= 55203

\* the body of disassemble's loop that leaves compound vowels and compound
\* trailing consonants whole
disassembleWhole(code) ==
    IF isHangul(code) THEN
        LET off  == code - HANGUL_OFFSET
            jong == off % 28
            jung == ((off - jong) \div 28) % 21
            cho  == ((off - jong) \div 28) \div 21
        IN << CHO[cho + 1], COMPLETE_JUNG[jung + 1] >> \o
           (IF jong > 0 THEN << COMPLETE_JONG[jong + 1] >> ELSE << >>)
    ELSE << code >>

\* the body of disassemble's loop for one code unit
disassembleChar(code) ==
    IF isHangul(code) THEN
        LET off  == code - HANGUL_OFFSET
            jong == off % 28
            jung == ((off - jong) \div 28) % 21
            cho  == ((off - jong) \div 28) \div 21
        IN << CHO[cho + 1] >> \o JUNG[jung + 1] \o
           (IF jong > 0 THEN JONG[jong + 1] ELSE << >>)
    ELSE IF isConsonant(code) THEN
        IF isCho(code) THEN << CHO[CHO_HASH(code) + 1] >>
        ELSE JONG[JONG_HASH(code) + 1]
    ELSE IF isJung(code) THEN JUNG[JUNG_HASH(code) + 1]
    ELSE << code >>

\* Hangul.disassemble(string) (ungrouped), as an array of one-unit strings
disassemble(string) ==
    Concat([ i \in 1..Len(string) |-> disassembleChar(string[i]) ])

(***************************************************************************)
(* Hangul.assemble.  `false`, `undefined` and NaN are written -1.          *)
(***************************************************************************)
\* [first, second, joined] for ㄳ ㄵ ㄶ ㄺ ㄻ ㄼ ㄽ ㄾ ㄿ ㅀ ㅄ
COMPLEX_CONSONANTS ==
    << << 12593, 12613, 12595 >>, << 12596, 12616, 12597 >>,
       << 12596, 12622, 12598 >>, << 12601, 12593, 12602 >>,
       << 12601, 12609, 12603 >>, << 12601, 12610, 12604 >>,
       << 12601, 12613, 12605 >>, << 12601, 12620, 12606 >>,
       << 12601, 12621, 12607 >>, << 12601, 12622, 12608 >>,
       << 12610, 12613, 12612 >> >>

\* [first, second, joined] for ㅘ ㅙ ㅚ ㅝ ㅞ ㅟ ㅢ
COMPLEX_VOWELS ==
    << << 12631, 12623, 12632 >>, << 12631, 12624, 12633 >>,
       << 12631, 12643, 12634 >>, << 12636, 12627, 12637 >>,
       << 12636, 12628, 12638 >>, << 12636, 12643, 12639 >>,
       << 12641, 12643, 12642 >> >>

\* _makeComplexHash: hash[code1][code2], -1 when either level is undefined
makeComplexHash(array, a, b) ==
    IF \E i \in 1..Len(array) : array[i][1] = a /\ array[i][2] = b
    THEN array[CHOOSE i \in 1..Len(array) : array[i][1] = a /\ array[i][2] = b][3]
    ELSE -1

isJong(c) == JONG_HASH(c) # -1

\* _isJungJoinable over an empty table of compound vowels
vowelsNeverJoin(a, b) == -1

\* _isJongJoinable over an empty table of compound consonants
consonantsNeverJoin(a, b) == -1

\* the joined code, or false (-1)
isJungJoinable(a, b) == makeComplexHash(COMPLEX_VOWELS, a, b)
isJongJoinable(a, b) == makeComplexHash(COMPLEX_CONSONANTS, a, b)

\* String.fromCharCode(n).charCodeAt(0): false and NaN give the unit 0
fromCharCode(n) == IF n < 0 THEN 0 ELSE n

\* (CHO_HASH[cho] * 21 + JUNG_HASH[jung]) * 28 + JONG_HASH[jong] +
\* HANGUL_OFFSET, NaN (-1) when a hash has no such key
syllableCode(cho, jung, jong) ==
    IF CHO_HASH(cho) = -1 \/ JUNG_HASH(jung) = -1 \/ JONG_HASH(jong) = -1
    THEN -1
    ELSE (CHO_HASH(cho) * 21 + JUNG_HASH(jung)) * 28 + JONG_HASH(jong) + HANGUL_OFFSET

\* one pass of the `for (step = 1; ; step++)` loop of _makeHangul before its
\* closing test: [return, push] when the pass returns, else the locals
\* m = [cho, jung1, jong1, hangul] it leaves; array[k] of the source is
\* array[k + 1] here
makeHangulStep(array, complete_index, index, step, m) ==
    LET at(k) == array[complete_index + k + 1]
        go(n) == [ return |-> FALSE, push |-> 0, m |-> n ]
        out(c) == [ return |-> TRUE, push |-> c, m |-> m ]
    IN CASE step = 1 ->
              IF isJung(at(1))
              THEN IF complete_index + 2 <= index /\ isJung(at(2))
                   THEN out(fromCharCode(isJungJoinable(at(1), at(2))))
                   ELSE out(at(1))
              ELSE IF ~isCho(at(1)) THEN out(at(1))
              ELSE go([ m EXCEPT !.cho = at(1), !.hangul = at(1) ])
         [] step = 2 ->
              IF isCho(at(2))
              THEN out(fromCharCode(isJongJoinable(m.cho, at(2))))
              ELSE go([ m EXCEPT !.jung1 = at(2),
                                 !.hangul = fromCharCode(syllableCode(m.cho, at(2), 0)) ])
         [] step = 3 ->
              IF isJungJoinable(m.jung1, at(3)) # -1
              THEN go([ m EXCEPT !.jung1 = isJungJoinable(m.jung1, at(3)),
                                 !.hangul = fromCharCode(syllableCode(m.cho,
                                     isJungJoinable(m.jung1, at(3)), m.jong1)) ])
              ELSE go([ m EXCEPT !.jong1 = at(3),
                                 !.hangul = fromCharCode(syllableCode(m.cho, m.jung1,
                                                                      at(3))) ])
         [] step = 4 ->
              IF isJongJoinable(m.jong1, at(4)) # -1
              THEN go([ m EXCEPT !.jong1 = isJongJoinable(m.jong1, at(4)),
                                 !.hangul = fromCharCode(syllableCode(m.cho, m.jung1,
                                     isJongJoinable(m.jong1, at(4)))) ])
              ELSE go([ m EXCEPT !.jong1 = at(4),
                                 !.hangul = fromCharCode(syllableCode(m.cho, m.jung1,
                                                                      at(4))) ])
         [] step = 5 ->
              go([ m EXCEPT !.jong1 = isJongJoinable(m.jong1, at(5)),
                            !.hangul = fromCharCode(syllableCode(m.cho, m.jung1,
                                isJongJoinable(m.jong1, at(5)))) ])
         [] OTHER -> go(m)

RECURSIVE makeHangulFrom(_, _, _, _, _)
\* the loop of _makeHangul from pass `step` on: the unit it pushes
makeHangulFrom(array, complete_index, index, step, m) ==
    Let(makeHangulStep(array, complete_index, index, step, m),
      LAMBDA r :
        IF r.return THEN r.push
        ELSE IF complete_index + step >= index THEN r.m.hangul
        ELSE makeHangulFrom(array, complete_index, index, step + 1, r.m))

\* _makeHangul(index) on the variables of assemble,
\* a = [result, stage, complete_index, previous_code, jong_joined]
makeHangul(array, a, index) ==
    IF a.complete_index + 1 > index THEN [ a EXCEPT !.jong_joined = FALSE ]
    ELSE [ a EXCEPT !.jong_joined = FALSE,
                    !.complete_index = index,
                    !.result = Append(@, makeHangulFrom(array, a.complete_index, index, 1,
                                   [ cho |-> -1, jung1 |-> -1, jong1 |-> 0,
                                     hangul |-> 0 ])) ]

\* the body of the loop of assemble for array[i], before
\* `previous_code = code`
assembleStage(array, a, i, code) ==
    LET made(k, stage) == [ makeHangul(array, a, k) EXCEPT !.stage = stage ]
    IN CASE a.stage = 0 ->
              IF isCho(code) THEN [ a EXCEPT !.stage = 1 ]
              ELSE IF isJung(code) THEN [ a EXCEPT !.stage = 4 ]
              ELSE a
         [] a.stage = 1 ->
              IF isJung(code) THEN [ a EXCEPT !.stage = 2 ]
              ELSE IF isJongJoinable(a.previous_code, code) # -1
                   THEN [ a EXCEPT !.stage = 5 ]
                   ELSE made(i - 1, 1)
         [] a.stage = 2 ->
              IF isJong(code) THEN [ a EXCEPT !.stage = 3 ]
              ELSE IF isJung(code)
                   THEN IF isJungJoinable(a.previous_code, code) # -1 THEN a
                        ELSE made(i - 1, 4)
                   ELSE made(i - 1, 1)
         [] a.stage = 3 ->
              IF isJong(code)
              THEN IF ~a.jong_joined /\ isJongJoinable(a.previous_code, code) # -1
                   THEN [ a EXCEPT !.jong_joined = TRUE ]
                   ELSE made(i - 1, 1)
              ELSE IF isCho(code) THEN made(i - 1, 1)
              ELSE IF isJung(code) THEN made(i - 2, 2)
              ELSE a
         [] a.stage = 4 ->
              IF isJung(code)
              THEN IF isJungJoinable(a.previous_code, code) # -1
                   THEN made(i, 0)
                   ELSE made(i - 1, 4)
              ELSE made(i - 1, 1)
         [] a.stage = 5 ->
              IF isJung(code) THEN made(i - 2, 2) ELSE made(i - 1, 1)
         [] OTHER -> a

RECURSIVE assembleLoop(_, _, _)
\* `for (var i = 0; i < length; i++)` of assemble, from i on
assembleLoop(array, a, i) ==
    IF i >= Len(array) THEN a
    ELSE IF ~isCho(array[i + 1]) /\ ~isJung(array[i + 1]) /\ ~isJong(array[i + 1])
         THEN assembleLoop(array,
                  [ makeHangul(array, makeHangul(array, a, i - 1), i) EXCEPT !.stage = 0 ],
                  i + 1)
         ELSE assembleLoop(array,
                  [ assembleStage(array, a, i, array[i + 1])
                      EXCEPT !.previous_code = array[i + 1] ],
                  i + 1)

\* Hangul.assemble(array) for an array of one-unit strings; a string argument
\* is disassembled first
assemble(array) ==
    makeHangul(array,
               assembleLoop(array,
                   [ result |-> << >>, stage |-> 0, complete_index |-> -1,
                     previous_code |-> -1, jong_joined |-> FALSE ], 0),
               Len(array) - 1).result

(***************************************************************************)
(* Fuse.js: scores of the bitap matcher are rationals <<num, den>>.        *)
(***************************************************************************)
RatLE(a, b) == a[1] * b[2] <= b[1] * a[2]
RatLT(a, b) == a[1] * b[2] < b[1] * a[2]
RatMin(a, b) == IF RatLE(a, b) THEN a ELSE b
RatMax(a, b) == IF RatLE(a, b) THEN b ELSE a

RECURSIVE GCD(_, _)
GCD(m, n) == IF n = 0 THEN m ELSE GCD(n, m % n)

\* the sum in lowest terms, so that the numbers stay small
RatAdd(a, b) ==
    Let(GCD(a[1] * b[2] + b[1] * a[2], a[2] * b[2]),
      LAMBDA g : << (a[1] * b[2] + b[1] * a[2]) \div g, (a[2] * b[2]) \div g >>)

Abs(x) == IF x < 0 THEN -x ELSE x
Max2(a, b) == IF a >= b THEN a ELSE b
Min2(a, b) == IF a <= b THEN a ELSE b

\* computeScore$1 without the ignoreLocation branch: the distance from the
\* expected location always counts
scoreWithProximity(pattern, errors, currentLocation, expectedLocation, o) ==
    LET accuracy  == << errors, Len(pattern) >>
        proximity == Abs(expectedLocation - currentLocation)
    IN IF o.distance = 0
       THEN (IF proximity # 0 THEN << 1, 1 >> ELSE accuracy)
       ELSE << errors * o.distance + proximity * Len(pattern),
               Len(pattern) * o.distance >>

\* computeScore$1(pattern, {errors, currentLocation, expectedLocation,
\* distance, ignoreLocation})
computeScore1(pattern, errors, currentLocation, expectedLocation, o) ==
    LET accuracy  == << errors, Len(pattern) >>
        proximity == Abs(expectedLocation - currentLocation)
    IN IF o.ignoreLocation THEN accuracy
       ELSE IF o.distance = 0
            THEN (IF proximity # 0 THEN << 1, 1 >> ELSE accuracy)
            ELSE << errors * o.distance + proximity * Len(pattern),
                    Len(pattern) * o.distance >>

MAX_BITS == 32

\* 32-bit integers used as bit masks are the sets of their set bits
Shl1(bits) == { b + 1 : b \in { x \in bits : x + 1 < MAX_BITS } }
LowBits(n) == 0..(n - 1)

\* createPatternAlphabet: the mask of a character (undefined reads as 0)
createPatternAlphabet(pattern) ==
    [ c \in Range(pattern) |->
        { Len(pattern) - i : i \in { k \in 1..Len(pattern) : pattern[k] = c } } ]

AlphabetGet(patternAlphabet, text, currentLocation) ==
    IF currentLocation >= 0 /\ currentLocation < Len(text)
         /\ text[currentLocation + 1] \in DOMAIN patternAlphabet
    THEN patternAlphabet[text[currentLocation + 1]]
    ELSE {}

\* reading a slot of a bit array that was never written gives undefined,
\* which the bit operators read as 0
BitGet(arr, j) == IF j \in DOMAIN arr THEN arr[j] ELSE {}

RECURSIVE exactMatches(_, _, _, _, _, _)
\* search: the loop over the exact occurrences of the pattern; the value is
\* currentThreshold after the loop
exactMatches(text, pattern, bestLocation, currentThreshold, expectedLocation, o) ==
    LET index == IndexOfFrom(text, pattern, bestLocation)
    IN IF index > -1
       THEN exactMatches(text, pattern, index + Len(pattern),
                RatMin(computeScore1(pattern, 0, index, expectedLocation, o),
                       currentThreshold),
                expectedLocation, o)
       ELSE currentThreshold

\* search: the binary search of one error level,
\* `while (binMin < binMid) {...}`; the value is [binMin, binMid, binMax]
\* after the loop.  binMax - binMin is at least halved by every round after
\* the first, so the loop is over within two rounds more than binMax has
\* binary digits
binarySearch(pattern, i, binMin, binMid, binMax, currentThreshold, expectedLocation, o) ==
    LET round(b, k) ==
          IF b.binMin < b.binMid
          THEN LET score == computeScore1(pattern, i, expectedLocation + b.binMid,
                                          expectedLocation, o)
                   le    == RatLE(score, currentThreshold)
                   nMin  == IF le THEN b.binMid ELSE b.binMin
                   nMax  == IF le THEN b.binMax ELSE b.binMid
               IN [ binMin |-> nMin, binMid |-> ((nMax - nMin) \div 2) + nMin,
                    binMax |-> nMax ]
          ELSE b
        digits == CHOOSE k \in 0..(binMax + 1) :
                      2^k > binMax /\ (k = 0 \/ 2^(k - 1) <= binMax)
    IN ForEach(round, [ binMin |-> binMin, binMid |-> binMid, binMax |-> binMax ],
               1, digits + 2)

\* search: the loop over j (from finish down to start) of error level i;
\* s = [bitArr, finalScore, currentThreshold, bestLocation, start]; the loop
\* is over, `done`, when j < start or at its `break`
scanRow(text, pattern, patternAlphabet, i, lastBitArr, expectedLocation, o, finish, s0) ==
    LET body(acc, k) ==
          LET j == finish - k
              s == acc.s
          IN IF acc.done \/ j < s.start THEN [ acc EXCEPT !.done = TRUE ]
             ELSE
               LET currentLocation == j - 1
                   charMatch == AlphabetGet(patternAlphabet, text, currentLocation)
                   exact == (Shl1(s.bitArr[j + 1]) \cup {0}) \cap charMatch
                   fuzzy == IF i # 0
                            THEN Shl1(BitGet(lastBitArr, j + 1) \cup BitGet(lastBitArr, j))
                                   \cup {0} \cup BitGet(lastBitArr, j + 1)
                            ELSE {}
                   row   == exact \cup fuzzy
                   arr   == (j :> row) @@ s.bitArr
                   hit   == (Len(pattern) - 1) \in row
                   score == computeScore1(pattern, i, currentLocation, expectedLocation, o)
                   s1    == [ s EXCEPT !.bitArr = arr,
                                       !.finalScore = IF hit THEN score ELSE @ ]
               IN IF hit /\ RatLE(score, s.currentThreshold)
                  THEN LET s2 == [ s1 EXCEPT !.currentThreshold = score,
                                             !.bestLocation = currentLocation ]
                       IN IF currentLocation <= expectedLocation
                          THEN [ s |-> s2, done |-> TRUE ]
                          ELSE [ s |-> [ s2 EXCEPT !.start =
                                           Max2(1, 2 * expectedLocation - currentLocation) ],
                                 done |-> FALSE ]
                  ELSE [ s |-> s1, done |-> FALSE ]
    IN ForEach(body, [ s |-> s0, done |-> FALSE ], 0, finish - 1).s

\* search: the loop over the error levels i, left at its break;
\* t = [lastBitArr, finalScore, binMax, currentThreshold, bestLocation]
errorLevels(text, pattern, patternAlphabet, expectedLocation, o, i0, t0) ==
    LET level(acc, i) ==
          IF acc.done THEN acc
          ELSE
            LET t == acc.t
            IN Let(binarySearch(pattern, i, 0, t.binMax, t.binMax,
                                t.currentThreshold, expectedLocation, o).binMid,
                 LAMBDA binMid :
                   LET start  == Max2(1, expectedLocation - binMid + 1)
                       finish == IF o.findAllMatches THEN Len(text)
                                 ELSE Min2(expectedLocation + binMid, Len(text))
                                        + Len(pattern)
                   IN Let(scanRow(text, pattern, patternAlphabet, i, t.lastBitArr,
                                  expectedLocation, o, finish,
                                  [ bitArr |-> ((finish + 1) :> LowBits(i)),
                                    finalScore |-> t.finalScore,
                                    currentThreshold |-> t.currentThreshold,
                                    bestLocation |-> t.bestLocation,
                                    start |-> start ]),
                        LAMBDA row :
                          Let([ t EXCEPT !.finalScore = row.finalScore,
                                         !.binMax = binMid,
                                         !.currentThreshold = row.currentThreshold,
                                         !.bestLocation = row.bestLocation ],
                            LAMBDA t1 :
                              IF RatLT(t1.currentThreshold,
                                       computeScore1(pattern, i + 1, expectedLocation,
                                                     expectedLocation, o))
                              THEN [ t |-> t1, done |-> TRUE ]
                              ELSE [ t |-> [ t1 EXCEPT !.lastBitArr = row.bitArr ],
                                     done |-> FALSE ])))
    IN ForEach(level, [ t |-> t0, done |-> FALSE ], i0, Len(pattern) - 1).t

\* the outcome of a call that threw: new Error(PATTERN_LENGTH_TOO_LARGE(MAX_BITS))
PatternTooLarge == [ isMatch |-> FALSE, score |-> << 1, 1 >>, thrown |-> TRUE ]

\* search(text, pattern, patternAlphabet, options) of the bitap module; no
\* match mask is tracked (minMatchCharLength = 1 and includeMatches = false)
search(text, pattern, patternAlphabet, o) ==
    IF Len(pattern) > MAX_BITS THEN PatternTooLarge
    ELSE
    LET expectedLocation == Max2(0, Min2(o.location, Len(text)))
        threshold0 == exactMatches(text, pattern, expectedLocation, o.threshold,
                                   expectedLocation, o)
    IN Let(errorLevels(text, pattern, patternAlphabet, expectedLocation, o, 0,
               [ lastBitArr |-> << >>,
                 finalScore |-> << 1, 1 >>,
                 binMax |-> Len(pattern) + Len(text),
                 currentThreshold |-> threshold0,
                 bestLocation |-> -1 ]),
         LAMBDA t : [ isMatch |-> t.bestLocation >= 0,
                      score   |-> RatMax(<< 1, 1000 >>, t.finalScore),
                      thrown  |-> FALSE ])

RECURSIVE fullChunks(_, _, _)
\* BitapSearch constructor: the chunks cut while i < end
fullChunks(pattern, i, end) ==
    IF i < end
    THEN << [ pattern |-> SubSeq(pattern, i + 1, i + MAX_BITS), startIndex |-> i ] >>
           \o fullChunks(pattern, i + MAX_BITS, end)
    ELSE << >>

\* the constructor without the cut into chunks: the whole pattern is one
\* chunk
BitapSearchUncut(pattern, o) ==
    LET p == IF o.isCaseSensitive THEN pattern ELSE toLowerCase(pattern)
    IN [ options |-> o,
         pattern |-> p,
         chunks  |-> IF Len(p) = 0 THEN << >>
                     ELSE << [ pattern |-> p, startIndex |-> 0 ] >> ]

\* new BitapSearch(pattern, options)
BitapSearch(pattern, o) ==
    LET p   == IF o.isCaseSensitive THEN pattern ELSE toLowerCase(pattern)
        len == Len(p)
        remainder == len % MAX_BITS
    IN [ options |-> o,
         pattern |-> p,
         chunks  |->
            IF len = 0 THEN << >>
            ELSE IF len > MAX_BITS
                 THEN fullChunks(p, 0, len - remainder) \o
                      (IF remainder # 0
                       THEN << [ pattern |-> SubSeq(p, len - MAX_BITS + 1, len),
                                 startIndex |-> len - MAX_BITS ] >>
                       ELSE << >>)
                 ELSE << [ pattern |-> p, startIndex |-> 0 ] >> ]

\* the options of a chunk without the offset: every chunk is searched at
\* the location of the whole pattern
sameOptions(options, chunk) == options

\* BitapSearch.searchIn: the options one chunk is searched with
\* (location: location + startIndex)
chunkOptions(options, chunk) ==
    [ options EXCEPT !.location = @ + chunk.startIndex ]

RECURSIVE chunkResults(_, _, _)
\* BitapSearch.searchIn: the loop over the chunks;
\* the value is [hasMatches, totalScore, thrown]: a throw of search ends
\* the loop and leaves searchIn
chunkResults(searcher, text, k) ==
    IF k = 0 THEN [ hasMatches |-> FALSE, totalScore |-> << 0, 1 >>, thrown |-> FALSE ]
    ELSE LET prev == chunkResults(searcher, text, k - 1)
             ch   == searcher.chunks[k]
         IN IF prev.thrown THEN prev
            ELSE Let(search(text, ch.pattern, createPatternAlphabet(ch.pattern),
                            chunkOptions(searcher.options, ch)),
                   LAMBDA r : [ hasMatches |-> prev.hasMatches \/ r.isMatch,
                                totalScore |-> RatAdd(prev.totalScore, r.score),
                                thrown     |-> r.thrown ])

\* searchIn without the branch for a text equal to the pattern: every text
\* goes through the chunks
searchChunksOnly(searcher, text0) ==
    LET text == IF searcher.options.isCaseSensitive THEN text0 ELSE toLowerCase(text0)
    IN Let(chunkResults(searcher, text, Len(searcher.chunks)),
         LAMBDA r : IF r.thrown THEN PatternTooLarge
                    ELSE [ isMatch |-> r.hasMatches,
                           score   |-> IF r.hasMatches
                                       THEN << r.totalScore[1],
                                               r.totalScore[2] * Len(searcher.chunks) >>
                                       ELSE << 1, 1 >>,
                           thrown  |-> FALSE ])

\* BitapSearch.searchIn(text)
searchIn(searcher, text0) ==
    LET text == IF searcher.options.isCaseSensitive THEN text0 ELSE toLowerCase(text0)
    IN IF searcher.pattern = text
       THEN [ isMatch |-> TRUE, score |-> << 0, 1 >>, thrown |-> FALSE ]
       ELSE Let(chunkResults(searcher, text, Len(searcher.chunks)),
              LAMBDA r : IF r.thrown THEN PatternTooLarge
                         ELSE [ isMatch |-> r.hasMatches,
                                score   |-> IF r.hasMatches
                                            THEN << r.totalScore[1],
                                                    r.totalScore[2] * Len(searcher.chunks) >>
                                            ELSE << 1, 1 >>,
                                thrown  |-> FALSE ])

(***************************************************************************)
(* Fuse.js: the index of records and the search over it.                   *)
(***************************************************************************)
\* isBlank(value): !value.trim().length
isBlank(value) == Len(trim(value)) = 0

\* a count of tokens that does not look at the value
numTokensIgnored(value) == 1

\* value.match(SPACE).length with SPACE = /[^ ]+/g: the number of maximal
\* runs of non-space units
numTokens(value) ==
    Cardinality({ i \in 1..Len(value) :
                    value[i] # 32 /\ (i = 1 \/ value[i - 1] = 32) })

RECURSIVE roundedNorm(_, _, _)
\* the m in lo..hi with m - 1/2 <= 1000/sqrt(n) < m + 1/2, that is
\* Math.round(1000 / Math.pow(n, 0.5)), found by bisection
roundedNorm(n, lo, hi) ==
    IF lo = hi THEN lo
    ELSE LET mid == (lo + hi + 1) \div 2
         IN IF (2 * mid - 1) * (2 * mid - 1) * n <= 4000000
            THEN roundedNorm(n, mid, hi)
            ELSE roundedNorm(n, lo, mid - 1)

\* norm(weight = 1, mantissa = 3).get(value): 1 / numTokens^0.5 rounded to
\* three decimals, in thousandths
norm(value) == roundedNorm(numTokens(value), 1, 1000)

\* a key descriptor of the options is a string, [ kind |-> "string", name ],
\* or an object, [ kind |-> "object", hasName, name, hasWeight, weight ];
\* weights are in tenths
DefaultKeyWeight == 10

\* createKey without the test of the weight
createKeyAnyWeight(key) ==
    IF key.kind = "string"
    THEN [ thrown |-> "", id |-> key.name, weight |-> DefaultKeyWeight ]
    ELSE IF ~key.hasName
         THEN [ thrown |-> "MISSING_KEY_PROPERTY", id |-> "", weight |-> 0 ]
         ELSE [ thrown |-> "", id |-> key.name,
                weight |-> IF key.hasWeight THEN key.weight ELSE DefaultKeyWeight ]

\* createKey(key): the key object, or the error thrown
createKey(key) ==
    IF key.kind = "string"
    THEN [ thrown |-> "", id |-> key.name, weight |-> DefaultKeyWeight ]
    ELSE IF ~key.hasName
         THEN [ thrown |-> "MISSING_KEY_PROPERTY", id |-> "", weight |-> 0 ]
         ELSE IF key.hasWeight /\ key.weight <= 0
              THEN [ thrown |-> "INVALID_KEY_WEIGHT_VALUE", id |-> "", weight |-> 0 ]
              ELSE [ thrown |-> "", id |-> key.name,
                     weight |-> IF key.hasWeight THEN key.weight ELSE DefaultKeyWeight ]

\* the first error the calls createKey(keys[1]), createKey(keys[2]), ...
\* throw, "" when none throws
firstThrown(keys) ==
    LET bad == { k \in 1..Len(keys) : createKey(keys[k]).thrown # "" }
    IN IF bad = {} THEN ""
       ELSE createKey(keys[CHOOSE k \in bad : \A m \in bad : k <= m]).thrown

RECURSIVE keyStoreTotal(_, _)
\* KeyStore constructor: totalWeight after the first k keys; the loop adds
\* obj.weight before and after it stores the key
keyStoreTotal(keys, k) ==
    IF k = 0 THEN 0
    ELSE keyStoreTotal(keys, k - 1) + createKey(keys[k]).weight
                                    + createKey(keys[k]).weight

\* new KeyStore(keys): the keys with their weights divided by totalWeight
\* (exact fractions), or the error thrown
KeyStore(keys) ==
    IF firstThrown(keys) # "" THEN [ thrown |-> firstThrown(keys), keys |-> << >> ]
    ELSE [ thrown |-> "",
           keys |-> [ k \in 1..Len(keys) |->
                        [ id |-> createKey(keys[k]).id,
                          weight |-> << createKey(keys[k]).weight,
                                        keyStoreTotal(keys, Len(keys)) >> ] ] ]

\* new Fuse(docs, {keys}): the key store, then createIndex, which maps the
\* keys of the options through createKey once more; or the error thrown
FuseConstructor(keys) ==
    IF KeyStore(keys).thrown # ""
    THEN [ thrown |-> KeyStore(keys).thrown, keyStore |-> << >>, indexKeys |-> << >> ]
    ELSE [ thrown |-> firstThrown(keys),
           keyStore |-> KeyStore(keys).keys,
           indexKeys |-> [ k \in 1..Len(keys) |-> createKey(keys[k]) ] ]

\* the keys rebuildFuse passes to Fuse; weights in tenths.  createIndex maps
\* them through createKey, so the searched keys carry the weights as written
FuseKeys == << [ name |-> "jamo", weight |-> 7 ], [ name |-> "display", weight |-> 3 ] >>

NoValue == [ none |-> TRUE ]

\* FuseIndex._addObject(doc, docIndex): one record per document, one
\* sub-record {v, n} per key whose value is a non-blank string
addObject(doc, docIndex) ==
    [ i |-> docIndex,
      fields |-> [ k \in 1..Len(FuseKeys) |->
                     LET value == doc[FuseKeys[k].name]
                     IN IF isBlank(value) THEN NoValue
                        ELSE [ v |-> value, n |-> norm(value) ] ] ]

\* createIndex(keys, docs): FuseIndex.create over the documents
createIndex(docs) == [ k \in 1..Len(docs) |-> addObject(docs[k], k - 1) ]

\* Math.pow(score, weight * norm) of computeScore in thousandths, for a
\* rational score and the exponents 0.7 and 0.3 (norm 1): rows
\* <<numerator, denominator, Math.pow rounded to three decimals>>
PowTable ==
    [ w \in {7, 3} |->
        IF w = 7
        THEN << <<1, 1000, 8>>, <<1, 2, 616>>, <<1, 3, 463>>, <<2, 3, 753>>,
                <<1, 4, 379>>, <<3, 4, 818>>, <<1, 5, 324>>, <<2, 5, 527>>,
                <<3, 5, 699>>, <<4, 5, 855>>, <<1, 6, 285>>, <<5, 6, 880>> >>
        ELSE << <<1, 1000, 126>>, <<1, 2, 812>>, <<1, 3, 719>>, <<2, 3, 885>>,
                <<1, 4, 660>>, <<3, 4, 917>>, <<1, 5, 617>>, <<2, 5, 760>>,
                <<3, 5, 858>>, <<4, 5, 935>>, <<1, 6, 584>>, <<5, 6, 947>> >> ]

\* a score of 0 is replaced by Number.EPSILON (2^-52) when the key has a
\* weight; EPSILON^0.3 and EPSILON^0.7 are both 0.000 to three decimals
pow(score, weight, n) ==
    IF score[1] = 0 THEN 0
    ELSE LET row == CHOOSE r \in Range(PowTable[weight]) :
                       n = 1000 /\ r[1] * score[2] = score[1] * r[2]
         IN row[3]

\* Fuse._findMatches({key, value, searcher}) for a string value
findMatches(key, value, searcher) ==
    IF value = NoValue THEN << >>
    ELSE Let(searchIn(searcher, value.v),
           LAMBDA r : IF r.isMatch
                      THEN << [ score |-> r.score, key |-> key, norm |-> value.n ] >>
                      ELSE << >>)

RECURSIVE totalScore(_, _)
\* computeScore: the product over the first k matches of one result, in
\* millionths
totalScore(matches, k) ==
    IF k = 0 THEN 1000000
    ELSE LET m == matches[k]
         IN (totalScore(matches, k - 1) * pow(m.score, m.key.weight, m.norm)) \div 1000

\* stable sort of a sequence by a strict order Less
SortBy(seq, Less(_, _)) ==
    LET before(j, i) == Less(seq[j], seq[i]) \/ (~Less(seq[i], seq[j]) /\ j < i)
        rank(i) == Cardinality({ j \in 1..Len(seq) : j # i /\ before(j, i) }) + 1
    IN [ k \in 1..Len(seq) |-> seq[CHOOSE i \in 1..Len(seq) : rank(i) = k] ]

SelectIdx(seq, Keep(_)) ==
    LET idx == { i \in 1..Len(seq) : Keep(seq[i]) }
        nth(k) == CHOOSE i \in idx : Cardinality({ j \in idx : j < i }) = k - 1
    IN [ k \in 1..Cardinality(idx) |-> seq[nth(k)] ]

\* Array.prototype.slice(0, n)
Slice0(seq, n) == SubSeq(seq, 1, Min2(Max2(n, 0), Len(seq)))

\* BasicOptions.sortFn: ascending score, then ascending index
sortFn(a, b) == IF a.score = b.score THEN a.idx < b.idx ELSE a.score < b.score

\* Fuse._searchObjectList(query) followed by computeScore: one result per
\* record with at least one matching key
searchObjectList(fuse, query) ==
    LET searcher == BitapSearch(query, fuse.options)
        all == [ r \in 1..Len(fuse.records) |->
                   LET rec == fuse.records[r]
                   IN Let(Concat([ k \in 1..Len(FuseKeys) |->
                                    findMatches(FuseKeys[k], rec.fields[k], searcher) ]),
                        LAMBDA matches :
                          [ idx |-> rec.i, matches |-> matches,
                            score |-> totalScore(matches, Len(matches)) ]) ]
        hasMatch(res) == Len(res.matches) > 0
    IN SelectIdx(all, hasMatch)

\* Fuse.search(query, {limit}) with shouldSort and includeScore; docs is the
\* array the Fuse object was built over (format reads docs[idx])
FuseSearch(fuse, docs, query, limit) ==
    Let(SortBy(searchObjectList(fuse, query), sortFn),
      LAMBDA results :
        Let(IF limit > -1 THEN Slice0(results, limit) ELSE results,
          LAMBDA cut :
            [ k \in 1..Len(cut) |->
                [ item |-> docs[cut[k].idx + 1], refIndex |-> cut[k].idx,
                  score |-> cut[k].score ] ]))

(***************************************************************************)
(* HangulIndex: the index state is the record                              *)
(*   [entries, indexMap, contentCache, fuse]                               *)
(* and each method maps an index state to the index state it leaves.       *)
(***************************************************************************)
NoEntry == [ none |-> TRUE ]
NoFuse == [ none |-> TRUE ]

Extension == "md"

\* a decomposition that leaves the compound vowel and the compound trailing
\* consonant of a block whole and splits the bare ones
decomposeBlocksWhole(text) ==
    Concat([ i \in 1..Len(text) |->
               IF isHangul(text[i]) THEN disassembleWhole(text[i])
               ELSE disassembleChar(text[i]) ])

\* Hangul.disassemble(text).join('')
decomposeKoreanText(text) == disassemble(text)

\* an entry marked content-loaded at its creation
createLoadedEntry(file) ==
    [ display |-> file.basename,
      jamo |-> disassemble(file.basename),
      path |-> file.path,
      content |-> << >>,
      contentJamo |-> << >>,
      score |-> 0,
      size |-> file.stat.size,
      mtime |-> file.stat.mtime,
      contentLoaded |-> TRUE ]

\* createMetadataEntry(file)
createMetadataEntry(file) ==
    [ display |-> file.basename,
      jamo |-> decomposeKoreanText(file.basename),
      path |-> file.path,
      content |-> << >>,
      contentJamo |-> << >>,
      score |-> 0,
      size |-> file.stat.size,
      mtime |-> file.stat.mtime,
      contentLoaded |-> FALSE ]

\* private defaultThreshold = 0.6, in tenths
defaultThreshold == 6

\* rebuildFuse(): a new Fuse over this.entries; a threshold setting of 0 is
\* falsy, so `fuzzyThreshold || this.defaultThreshold` takes the default
rebuildFuse(ix, fuzzyThreshold) ==
    LET threshold == IF fuzzyThreshold # 0 THEN fuzzyThreshold ELSE defaultThreshold
    IN [ ix EXCEPT !.fuse =
           [ options |-> [ location |-> 0, distance |-> 100,
                           threshold |-> << threshold, 10 >>,
                           findAllMatches |-> FALSE, minMatchCharLength |-> 1,
                           includeMatches |-> FALSE, isCaseSensitive |-> FALSE,
                           ignoreLocation |-> TRUE ],
             records |-> createIndex(ix.entries) ] ]

\* Array.prototype.indexOf, 0-based (the entries of one index are distinct
\* objects with distinct paths, so identity is equality of the records)
indexOf(seq, x) ==
    IF \E i \in 1..Len(seq) : seq[i] = x
    THEN (CHOOSE i \in 1..Len(seq) : seq[i] = x /\ \A j \in 1..(i - 1) : seq[j] # x) - 1
    ELSE -1

\* Array.prototype.splice(index, 1)
splice1(seq, index) ==
    SubSeq(seq, 1, index) \o SubSeq(seq, index + 2, Len(seq))

\* removeFile without its two guards: indexOf gives -1 for a path that has no
\* record, and splice(-1, 1) takes the last record out
removeFileUnchecked(ix, path, skipFuseRebuild, fuzzyThreshold) ==
    LET found == indexOf(ix.entries, ix.indexMap[path])
        at == IF found > -1 THEN found ELSE Len(ix.entries) - 1
        ix1 == [ ix EXCEPT !.entries = splice1(@, at), !.indexMap[path] = NoEntry ]
    IN IF skipFuseRebuild THEN ix1 ELSE rebuildFuse(ix1, fuzzyThreshold)

\* removeFile(file, skipFuseRebuild): only file.path is read
removeFile(ix, path, skipFuseRebuild, fuzzyThreshold) ==
    LET existingEntry == ix.indexMap[path]
        index == indexOf(ix.entries, existingEntry)
    IN IF existingEntry = NoEntry THEN ix
       ELSE IF index > -1
            THEN LET ix1 == [ ix EXCEPT !.entries = splice1(@, index),
                                        !.indexMap[path] = NoEntry ]
                 IN IF skipFuseRebuild THEN ix1 ELSE rebuildFuse(ix1, fuzzyThreshold)
            ELSE ix

\* addFileMetadata without the removal of the record the path already has
addFileMetadataKeeping(ix, file, fuzzyThreshold) ==
    IF file.extension # Extension THEN ix
    ELSE LET entry == createMetadataEntry(file)
         IN [ ix EXCEPT !.entries = Append(@, entry),
                        !.indexMap[file.path] = entry ]

\* addFileMetadata(file)
addFileMetadata(ix, file, fuzzyThreshold) ==
    IF file.extension # Extension THEN ix
    ELSE LET entry == createMetadataEntry(file)
             ix1 == IF ix.indexMap[file.path] # NoEntry
                    THEN removeFile(ix, file.path, TRUE, fuzzyThreshold)
                    ELSE ix
         IN [ ix1 EXCEPT !.entries = Append(@, entry),
                         !.indexMap[file.path] = entry ]

\* addFile(file, skipFuseRebuild)
addFile(ix, file, skipFuseRebuild, fuzzyThreshold) ==
    LET ix1 == addFileMetadata(ix, file, fuzzyThreshold)
    IN IF skipFuseRebuild THEN ix1 ELSE rebuildFuse(ix1, fuzzyThreshold)

\* updateFile(file)
updateFile(ix, file, fuzzyThreshold) ==
    IF file.extension # Extension THEN ix
    ELSE addFile(removeFile(ix, file.path, FALSE, fuzzyThreshold), file, FALSE,
                 fuzzyThreshold)

\* updateOnRename that adds the new record and keeps the old one
updateOnRenameKeepOld(ix, file, oldPath, fuzzyThreshold) ==
    IF ix.indexMap[oldPath] # NoEntry
    THEN addFile(ix, file, FALSE, fuzzyThreshold)
    ELSE ix

\* updateOnRename(file, oldPath)
updateOnRename(ix, file, oldPath, fuzzyThreshold) ==
    IF ix.indexMap[oldPath] # NoEntry
    THEN addFile(removeFile(ix, oldPath, FALSE, fuzzyThreshold), file, FALSE,
                 fuzzyThreshold)
    ELSE ix

\* getIndexedCount()
getIndexedCount(ix) == Len(ix.entries)

\* the state a new HangulIndex(plugin) starts in
newIndex(paths) ==
    [ entries |-> << >>,
      indexMap |-> [ p \in paths |-> NoEntry ],
      contentCache |-> [ p \in paths |-> NoEntry ],
      fuse |-> NoFuse ]

\* build(): the loop `for (const file of files) await this.addFileMetadata(file)`
addAllMetadata(ix, files, fuzzyThreshold) ==
    LET each(acc, i) == addFileMetadata(acc, files[i], fuzzyThreshold)
    IN ForEach(each, ix, 1, Len(files))

\* build(), files being vault.getMarkdownFiles()
build(ix, files, fuzzyThreshold) ==
    rebuildFuse(addAllMetadata(
                    [ ix EXCEPT !.entries = << >>,
                                !.indexMap = [ p \in DOMAIN ix.indexMap |-> NoEntry ],
                                !.contentCache = [ p \in DOMAIN ix.contentCache |-> NoEntry ] ],
                    files, fuzzyThreshold),
                fuzzyThreshold)

\* clear()
clear(ix, fuzzyThreshold) ==
    rebuildFuse([ ix EXCEPT !.entries = << >>,
                            !.indexMap = [ p \in DOMAIN ix.indexMap |-> NoEntry ],
                            !.contentCache = [ p \in DOMAIN ix.contentCache |-> NoEntry ] ],
                fuzzyThreshold)

(***************************************************************************)
(* HangulIndex.search and its strategies.  Relevance scores are in         *)
(* millionths.                                                             *)
(***************************************************************************)
Million == 1000 * 1000

\* the recency window of calculateRelevanceScore: 7 days in milliseconds
RecentMs == 7 * (1000 * 60 * 60 * 24)

\* the `switch (strategy)` of calculateRelevanceScore
strategyBoost(strategy) ==
    CASE strategy = "direct" -> 5 * Million
      [] strategy = "initial-consonant" -> 3 * Million
      [] strategy = "partial-syllable" -> 2 * Million
      [] strategy = "decomposed" -> 1 * Million
      [] OTHER -> 0

\* calculateRelevanceScore(entry, query, fuseScore, strategy), Date.now()
\* being `now`
calculateRelevanceScore(entry, query, fuseScore, strategy, now) ==
    LET queryLower == toLowerCase(query)
        displayLower == toLowerCase(entry.display)
    IN (Million - fuseScore)
       + strategyBoost(strategy)
       + (IF displayLower = queryLower THEN 10 * Million
          ELSE IF Includes(displayLower, queryLower) THEN 5 * Million ELSE 0)
       + (IF Includes(toLowerCase(entry.content), queryLower) THEN 2 * Million ELSE 0)
       + (IF now - entry.mtime < RecentMs THEN Million ELSE 0)
       + (IF entry.size < 1000 THEN Million \div 2 ELSE 0)

\* the merge without the score comparison: results.set(path, {...item, score})
\* whatever the Map holds
mergeResultOverwrite(results, item, score) ==
    LET at == { i \in 1..Len(results) : results[i].path = item.path }
        copy == [ item EXCEPT !.score = score ]
    IN IF at = {} THEN Append(results, copy)
       ELSE [ results EXCEPT ![CHOOSE k \in at : TRUE] = copy ]

\* `if (!results.has(path) || results.get(path).score < score)
\*      results.set(path, {...item, score})` on a Map kept as the sequence of
\* its values in insertion order
mergeResult(results, item, score) ==
    LET at == { i \in 1..Len(results) : results[i].path = item.path }
        copy == [ item EXCEPT !.score = score ]
    IN IF at = {} THEN Append(results, copy)
       ELSE LET i == CHOOSE k \in at : TRUE
            IN IF results[i].score < score THEN [ results EXCEPT ![i] = copy ]
               ELSE results

\* searchByStrategy: fuseResults.forEach over the first k results
mergeFuseResults(results, fuseResults, k, searchTerm, strategy, now) ==
    LET each(acc, i) ==
          mergeResult(acc, fuseResults[i].item,
              calculateRelevanceScore(fuseResults[i].item, searchTerm,
                                      fuseResults[i].score, strategy, now))
    IN ForEach(each, results, 1, k)

\* the limit searchByStrategy passes to Fuse.search
FuseLimit == 50

\* searchByStrategy(searchTerm, results, strategy); ix.fuse is defined here
\* (search rebuilds it first when it is not)
searchByStrategy(ix, searchTerm, results, strategy, now) ==
    Let(FuseSearch(ix.fuse, ix.entries, searchTerm, FuseLimit),
      LAMBDA fuseResults :
        mergeFuseResults(results, fuseResults, Len(fuseResults), searchTerm, strategy,
                         now))

\* extractInitialConsonants that leaves the syllables as they are
keepSyllables(text) == text

\* extractInitialConsonants(text)
extractInitialConsonants(text) ==
    [ i \in 1..Len(text) |->
        IF isHangul(text[i]) THEN disassemble(<< text[i] >>)[1] ELSE text[i] ]

\* isInitialConsonantQuery(query): /^[ㄱ-ㅎ]+$/
isInitialConsonantQuery(query) ==
    Len(query) > 0 /\ \A i \in 1..Len(query) : query[i] >= 12593 /\ query[i] <= 12622

\* isPartialSyllableQuery(query): /[가-힣]/ and /[ㄱ-ㅎ]/
isPartialSyllableQuery(query) ==
    /\ \E i \in 1..Len(query) : isHangul(query[i])
    /\ \E i \in 1..Len(query) : query[i] >= 12593 /\ query[i] <= 12622

\* matchesPartialSyllable(text, pattern)
matchesPartialSyllable(text, pattern) ==
    Includes(decomposeKoreanText(text), decomposeKoreanText(pattern))

\* searchByInitialConsonants / searchByPartialSyllables: this.entries.forEach
\* over the first k entries; Matches(entry) is the test of the strategy
mergeEntries(results, entries, k, Matches(_), query, fuseScore, strategyNow) ==
    LET each(acc, i) ==
          IF Matches(entries[i])
          THEN mergeResult(acc, entries[i],
                   calculateRelevanceScore(entries[i], query, fuseScore,
                                           strategyNow.strategy, strategyNow.now))
          ELSE acc
    IN ForEach(each, results, 1, k)

\* searchByInitialConsonants(query, results)
searchByInitialConsonants(ix, query, results, now) ==
    LET Matches(entry) == Includes(extractInitialConsonants(entry.display), query)
    IN mergeEntries(results, ix.entries, Len(ix.entries), Matches, query,
                    (3 * Million) \div 10,
                    [ strategy |-> "initial-consonant", now |-> now ])

\* searchByPartialSyllables(query, results)
searchByPartialSyllables(ix, query, results, now) ==
    LET Matches(entry) == matchesPartialSyllable(entry.display, query)
    IN mergeEntries(results, ix.entries, Len(ix.entries), Matches, query,
                    (2 * Million) \div 10,
                    [ strategy |-> "partial-syllable", now |-> now ])

\* performKoreanSearch(query): Array.from(results.values())
performKoreanSearch(ix, query, now) ==
    LET decomposed == decomposeKoreanText(query)
    IN After(searchByStrategy(ix, query, << >>, "direct", now),
         LAMBDA r1 :
           After(IF decomposed # query
                 THEN searchByStrategy(ix, decomposed, r1, "decomposed", now)
                 ELSE r1,
             LAMBDA r2 :
               After(IF isInitialConsonantQuery(query)
                     THEN searchByInitialConsonants(ix, query, r2, now)
                     ELSE r2,
                 LAMBDA r3 :
                   IF isPartialSyllableQuery(query)
                   THEN searchByPartialSyllables(ix, query, r3, now)
                   ELSE r3)))

\* the comparator the other way round: (a, b) => a.score - b.score
byScoreAsc(a, b) == a.score < b.score

\* the comparator of search: (a, b) => b.score - a.score
byScoreDesc(a, b) == a.score > b.score

\* search(query, limit): searchResults.sort((a, b) => b.score - a.score)
sortedResults(ix, query, now) ==
    SortBy(performKoreanSearch(ix, query, now), byScoreDesc)

\* search(query, limit): topResults, the slice of the sorted results
topSlice(sorted, limit) == Slice0(sorted, Min2(limit * 2, 100))

\* search whose blank query lists the documents instead of returning []
searchResultListsAll(ix, query, limit, now) ==
    IF trim(query) = << >> THEN Slice0(ix.entries, limit)
    ELSE Slice0(topSlice(sortedResults(ix, query, now), limit), limit)

\* search(query, limit): the returned list
searchResult(ix, query, limit, now) ==
    IF trim(query) = << >> THEN << >>
    ELSE Slice0(topSlice(sortedResults(ix, query, now), limit), limit)

(***************************************************************************)
(* The vault, the plugin around the index, and the bounded inputs.         *)
(***************************************************************************)
\* most files the vault holds at a time
MaxFiles == 2

\* most content reads in flight at a time
MaxReads == 2

\* base names: "가나", "나", "낙"
Names == { << 44032, 45208 >>, << 45208 >>, << 45209 >> }

\* a path is base name + "." + extension (a flat vault)
MdPaths == { [ basename |-> n, extension |-> "md" ] : n \in Names }
OtherPaths == { [ basename |-> << 45208 >>, extension |-> "txt" ] }
Paths == MdPaths \cup OtherPaths

\* Date.now() of the searches: day 10
Now == 10 * (1000 * 60 * 60 * 24)

\* what a file can hold: content "o", small, modified a day ago; content
\* "x", large, modified nine days ago
FileVersions ==
    { [ content |-> << 111 >>, size |-> 500, mtime |-> 9 * (1000 * 60 * 60 * 24) ],
      [ content |-> << 120 >>, size |-> 2000, mtime |-> 1 * (1000 * 60 * 60 * 24) ] }

NoFile == [ none |-> TRUE ]

\* the values of the threshold setting, in tenths (DEFAULT_SETTINGS has 0.4)
Thresholds == { 0, 4 }

\* queries: "ㄱ", "ㄱㄴ", "가나", "가ㄴ", "o", " ", ""
Queries ==
    { << 12593 >>, << 12593, 12596 >>, << 44032, 45208 >>, << 44032, 12596 >>,
      << 111 >>, << 32 >>, << >> }

Limits == { 0, 1, 50 }

\* the TFile of a path holding a file version
TFile(p, ver) ==
    [ path |-> p, basename |-> p.basename, extension |-> p.extension,
      stat |-> [ size |-> ver.size, mtime |-> ver.mtime ] ]

VARIABLES
    vault,          \* path -> file version or NoFile
    index,          \* the HangulIndex: [entries, indexMap, contentCache, fuse]
    fuzzyThreshold, \* plugin.settings.fuzzyThreshold, in tenths
    phase,          \* "constructed", "building", "built" (since the last build)
                    \* or "cleared"
    reading,        \* paths with a cachedRead in flight, started by a search
    pending,        \* paths of the later hydration batches, not yet started
    lastCall,       \* the operation that ran last and its arguments
    cursor,         \* files a running progressive build has still to add
    probe,          \* the input a library function is applied to
    outcome,        \* what the function returned for the probe
    task            \* the lifecycle handler that ran last, and whether it is
                    \* suspended at an await with its continuation queued

vars == << vault, index, fuzzyThreshold, phase, reading, pending, lastCall,
           cursor, probe, outcome, task >>

\* no probe, no outcome: the plugin runs and no library function is probed
Nothing == [ none |-> TRUE ]

\* getMarkdownFiles() hands out the TFile objects of the vault itself: while
\* a file exists, a rename or a modification shows in every reference to it;
\* the object of a deleted file keeps its last path and stat
liveFiles(queue, path, file, live) ==
    [ i \in DOMAIN queue |->
        IF queue[i].live /\ queue[i].file.path = path
        THEN [ file |-> file, live |-> live ]
        ELSE queue[i] ]

NoPath == [ basename |-> << >>, extension |-> "" ]

\* no lifecycle handler has run yet
NoTask == [ op |-> "none", path |-> NoPath, oldPath |-> NoPath,
            indexedBefore |-> FALSE, suspended |-> FALSE ]

Call(op, path, oldPath, indexedBefore, query, limit) ==
    [ op |-> op, path |-> path, oldPath |-> oldPath, indexedBefore |-> indexedBefore,
      query |-> query, limit |-> limit ]

Present == { p \in Paths : vault[p] # NoFile }

\* the vaults of at most MaxFiles files
Vaults ==
    { v \in [ Paths -> FileVersions \cup {NoFile} ] :
        Cardinality({ p \in Paths : v[p] # NoFile }) <= MaxFiles }

\* the plugin is constructed over the vault as it is
Init ==
    /\ vault \in Vaults
    /\ index = newIndex(Paths)
    /\ fuzzyThreshold = 4
    /\ phase = "constructed"
    /\ reading = {}
    /\ pending = << >>
    /\ lastCall = Call("new", NoPath, NoPath, FALSE, << >>, 0)
    /\ cursor = << >>
    /\ probe = Nothing
    /\ outcome = Nothing
    /\ task = NoTask

\* every ordering of a set of paths
Orderings(S) ==
    { f \in [ 1..Cardinality(S) -> S ] : \A i, j \in DOMAIN f : i # j => f[i] # f[j] }

\* onload -> buildIndexAsync, and the rebuild commands: index.build() over
\* vault.getMarkdownFiles(), which lists the markdown files in some order
Build ==
    \E order \in Orderings(Present \cap MdPaths) :
        /\ index' = build(index, [ i \in DOMAIN order |-> TFile(order[i], vault[order[i]]) ],
                          fuzzyThreshold)
        /\ phase' = "built"
        /\ lastCall' = Call("build", NoPath, NoPath, FALSE, << >>, 0)
        /\ UNCHANGED << vault, fuzzyThreshold, reading, pending, cursor, probe, outcome, task >>

\* vault 'create' event: addFile for a markdown file
Create ==
    \E p \in Paths \ Present, ver \in FileVersions :
        /\ phase # "constructed"
        /\ Cardinality(Present) < MaxFiles
        /\ vault' = [ vault EXCEPT ![p] = ver ]
        /\ index' = IF p.extension = "md"
                    THEN addFile(index, TFile(p, ver), FALSE, fuzzyThreshold)
                    ELSE index
        /\ lastCall' = Call("create", p, NoPath, index.indexMap[p] # NoEntry, << >>, 0)
        /\ UNCHANGED << fuzzyThreshold, phase, reading, pending, cursor, probe, outcome, task >>

\* vault 'delete' event: removeFile
Delete ==
    \E p \in Present :
        /\ phase # "constructed"
        /\ vault' = [ vault EXCEPT ![p] = NoFile ]
        /\ index' = removeFile(index, p, FALSE, fuzzyThreshold)
        /\ lastCall' = Call("delete", p, NoPath, index.indexMap[p] # NoEntry, << >>, 0)
        /\ cursor' = liveFiles(cursor, p, TFile(p, vault[p]), FALSE)
        /\ UNCHANGED << fuzzyThreshold, phase, reading, pending, probe, outcome, task >>

\* vault 'rename' event: updateOnRename(file, oldPath)
Rename ==
    \E old \in Present, new \in Paths \ Present :
        /\ phase # "constructed"
        /\ vault' = [ vault EXCEPT ![old] = NoFile, ![new] = vault[old] ]
        /\ index' = updateOnRename(index, TFile(new, vault[old]), old, fuzzyThreshold)
        /\ lastCall' = Call("rename", new, old, index.indexMap[old] # NoEntry, << >>, 0)
        /\ cursor' = liveFiles(cursor, old, TFile(new, vault[old]), TRUE)
        /\ UNCHANGED << fuzzyThreshold, phase, reading, pending, probe, outcome, task >>

\* vault 'modify' event: updateFile for a markdown file
Modify ==
    \E p \in Present, ver \in FileVersions :
        /\ phase # "constructed"
        /\ ver # vault[p]
        /\ vault' = [ vault EXCEPT ![p] = ver ]
        /\ index' = IF p.extension = "md"
                    THEN updateFile(index, TFile(p, ver), fuzzyThreshold)
                    ELSE index
        /\ lastCall' = Call("modify", p, NoPath, index.indexMap[p] # NoEntry, << >>, 0)
        /\ cursor' = liveFiles(cursor, p, TFile(p, ver), TRUE)
        /\ UNCHANGED << fuzzyThreshold, phase, reading, pending, probe, outcome, task >>

\* settings tab "Clear Index": index.clear()
Clear ==
    /\ phase # "constructed"
    /\ index' = clear(index, fuzzyThreshold)
    /\ phase' = "cleared"
    /\ lastCall' = Call("clear", NoPath, NoPath, FALSE, << >>, 0)
    /\ UNCHANGED << vault, fuzzyThreshold, reading, pending, cursor, probe, outcome, task >>

\* settings tab threshold slider / text: settings.fuzzyThreshold = value,
\* then index.updateThreshold(value)
SetThreshold ==
    \E value \in Thresholds :
        /\ phase # "constructed"
        /\ value # fuzzyThreshold
        /\ fuzzyThreshold' = value
        /\ index' = rebuildFuse(index, value)
        /\ lastCall' = Call("threshold", NoPath, NoPath, FALSE, << >>, value)
        /\ UNCHANGED << vault, phase, reading, pending, cursor, probe, outcome, task >>

\* search passes topResults.slice(0, 20) to loadContentForTopResults
TopK == 20

\* loadContentForTopResults: const batchSize = 5
BatchSize == 5

\* loadFileContent keeps content.substring(0, 500)
PreviewLen == 500

\* loadFileContent without the look into the cache: every copy of a path
\* the vault holds a file for starts a cachedRead
startReadsAgain(ix, files, batch) ==
    { batch[i].path : i \in { k \in 1..Len(batch) :
          /\ ~batch[k].contentLoaded
          /\ files[batch[k].path] # NoFile } }

\* loadFileContent(entry) up to its await, for the result copies of one
\* batch: a copy is never contentLoaded; a cached path is served from the
\* cache, and a path the vault holds a file for starts a cachedRead
startReads(ix, files, batch) ==
    { batch[i].path : i \in { k \in 1..Len(batch) :
          /\ ~batch[k].contentLoaded
          /\ ix.contentCache[batch[k].path] = NoEntry
          /\ files[batch[k].path] # NoFile } }

\* the index if search handed out its records: the score of a result would
\* be the score of the stored record
storedAsResults(ix, results) ==
    LET scored(entry) ==
            IF \E k \in 1..Len(results) : results[k].path = entry.path
            THEN [ entry EXCEPT !.score =
                     results[CHOOSE k \in 1..Len(results) : results[k].path = entry.path].score ]
            ELSE entry
    IN [ ix EXCEPT !.entries = [ i \in DOMAIN @ |-> scored(@[i]) ],
                   !.indexMap = [ p \in DOMAIN @ |->
                                    IF @[p] = NoEntry THEN NoEntry ELSE scored(@[p]) ] ]

\* the index when search returns: a result is a copy of the record made
\* with its score ({ ...item, score }) and sort() orders the array made of
\* the copies, so nothing search writes reaches a stored record
storedAfterSearch(ix, results) == ix

\* search(query, limit) from the switcher, the link suggester or the public
\* API; the first hydration batch starts before search returns
Search ==
    /\ phase # "constructed"
    /\ \E query \in Queries :
         \E ix \in { IF trim(query) # << >> /\ index.fuse = NoFuse
                      THEN rebuildFuse(index, fuzzyThreshold) ELSE index } :
           \E sorted \in { IF trim(query) = << >> THEN << >>
                            ELSE sortedResults(ix, query, Now) } :
             \E limit \in Limits :
               \E top \in { Slice0(topSlice(sorted, limit), TopK) } :
                 \E first \in { startReads(ix, vault, Slice0(top, BatchSize)) } :
                    /\ Cardinality(reading \cup first) <= MaxReads
                    /\ index' = storedAfterSearch(ix, sorted)
                    /\ reading' = reading \cup first
                    /\ pending' = pending \o SubSeq(top, BatchSize + 1, Len(top))
                    /\ lastCall' = Call("search", NoPath, NoPath, FALSE, query, limit)
                    /\ UNCHANGED << vault, fuzzyThreshold, phase, cursor, probe, outcome, task >>

\* after the last read of a batch: the next batch of BatchSize copies
nextBatch(ix, files, left, queue) ==
    IF left = {} /\ queue # << >>
    THEN [ reading |-> startReads(ix, files, Slice0(queue, BatchSize)),
           pending |-> SubSeq(queue, Min2(Len(queue), BatchSize) + 1, Len(queue)) ]
    ELSE [ reading |-> left, pending |-> queue ]

\* a hydration write that puts the entry it has filled back into the index
\* when the index has no record of the path
hydrationWriteReindexes(ix, p, content) ==
    LET preview == SubSeq(content, 1, Min2(PreviewLen, Len(content)))
        cached  == [ content |-> preview, contentJamo |-> decomposeKoreanText(preview) ]
        ix1     == [ ix EXCEPT !.contentCache[p] = cached ]
    IN IF ix.indexMap[p] = NoEntry
       THEN LET entry == [ display |-> p.basename,
                           jamo |-> decomposeKoreanText(p.basename),
                           path |-> p,
                           content |-> preview,
                           contentJamo |-> cached.contentJamo,
                           score |-> 0, size |-> 0, mtime |-> 0,
                           contentLoaded |-> TRUE ]
            IN [ ix1 EXCEPT !.entries = Append(@, entry), !.indexMap[p] = entry ]
       ELSE ix1

\* loadFileContent(entry) after its await: the preview of the content read
\* is cached under the path (the entry it also fills is the result copy,
\* not a record of the index)
hydrationWrite(ix, p, content) ==
    LET preview == SubSeq(content, 1, Min2(PreviewLen, Len(content)))
    IN [ ix EXCEPT !.contentCache[p] =
           [ content |-> preview, contentJamo |-> decomposeKoreanText(preview) ] ]

\* a cachedRead resolves: loadFileContent caches the preview (the entry it
\* fills is the result copy, not a record of the index)
ReadDone ==
    \E p \in reading :
        /\ vault[p] # NoFile
        /\ LET ix == hydrationWrite(index, p, vault[p].content)
               nb == nextBatch(ix, vault, reading \ {p}, pending)
           IN /\ index' = ix
              /\ reading' = nb.reading
              /\ pending' = nb.pending
        /\ lastCall' = Call("readDone", p, NoPath, FALSE, << >>, 0)
        /\ UNCHANGED << vault, fuzzyThreshold, phase, cursor, probe, outcome, task >>

\* a cachedRead rejects: loadFileContent's catch marks the copy loaded and
\* caches nothing
ReadFail ==
    \E p \in reading :
        /\ LET nb == nextBatch(index, vault, reading \ {p}, pending)
           IN /\ reading' = nb.reading
              /\ pending' = nb.pending
        /\ lastCall' = Call("readFail", p, NoPath, FALSE, << >>, 0)
        /\ UNCHANGED << vault, index, fuzzyThreshold, phase, cursor, probe, outcome, task >>

\* files per batch of buildIndexProgressively (`const batchSize = 100`),
\* scaled to the vaults of at most MaxFiles files
ProgressiveBatchSize == 1

\* a batch that rebuilds Fuse and adds no file
batchAddNone(ix, files, threshold) == rebuildFuse(ix, threshold)

\* batchAddFiles(files): addFileMetadata for each file, then one rebuildFuse
batchAddFiles(ix, files, threshold) ==
    rebuildFuse(addAllMetadata(ix, files, threshold), threshold)

\* the files of the references a batch holds
batchFiles(queue) == [ i \in DOMAIN queue |-> queue[i].file ]

\* onload -> buildIndexProgressively up to its first timer: index.clear(),
\* then the first batch; the later batches wait behind a setTimeout each
ProgressiveStart ==
    \E order \in Orderings(Present \cap MdPaths) :
        \E files \in { [ i \in DOMAIN order |->
                           [ file |-> TFile(order[i], vault[order[i]]), live |-> TRUE ] ] } :
            /\ phase = "constructed"
            /\ index' = batchAddFiles(clear(index, fuzzyThreshold),
                                      batchFiles(Slice0(files, ProgressiveBatchSize)),
                                      fuzzyThreshold)
            /\ cursor' = SubSeq(files, ProgressiveBatchSize + 1, Len(files))
            /\ phase' = IF Len(files) > ProgressiveBatchSize THEN "building" ELSE "built"
            /\ lastCall' = Call("progressiveStart", NoPath, NoPath, FALSE, << >>, 0)
            /\ UNCHANGED << vault, fuzzyThreshold, reading, pending, probe, outcome, task >>

\* buildIndexProgressively after a timer: the next batch
ProgressiveBatch ==
    /\ cursor # << >>
    /\ index' = batchAddFiles(index, batchFiles(Slice0(cursor, ProgressiveBatchSize)),
                              fuzzyThreshold)
    /\ cursor' = SubSeq(cursor, ProgressiveBatchSize + 1, Len(cursor))
    /\ phase' = IF Len(cursor) > ProgressiveBatchSize THEN "building" ELSE "built"
    /\ lastCall' = Call("progressiveBatch", NoPath, NoPath, FALSE, << >>, 0)
    /\ UNCHANGED << vault, fuzzyThreshold, reading, pending, probe, outcome, task >>

\* what the search that ran last returned: Search leaves the entries and the
\* Fuse object as they were when the result was computed
lastResult ==
    IF lastCall.op = "search"
    THEN searchResult(index, lastCall.query, lastCall.limit, Now)
    ELSE << >>

\* the whole plugin
Next ==
    \/ Build
    \/ Create
    \/ Delete
    \/ Rename
    \/ Modify
    \/ Clear
    \/ SetThreshold
    \/ Search
    \/ ReadDone
    \/ ReadFail

Spec == Init /\ [][Next]_vars

\* index maintenance: the build, the vault events and the settings tab,
\* while nothing is queried
NextIndex ==
    \/ Build
    \/ Create
    \/ Delete
    \/ Rename
    \/ Modify
    \/ Clear
    \/ SetThreshold

SpecIndex == Init /\ [][NextIndex]_vars

\* queries and hydration over a vault that holds still
NextSearch ==
    \/ Build
    \/ SetThreshold
    \/ Search
    \/ ReadDone
    \/ ReadFail

SpecSearch == Init /\ [][NextSearch]_vars

\* queries and hydration where every cachedRead that was started settles: the
\* promise of the read resolves or rejects
SpecHydration == Init /\ [][NextSearch]_vars /\ WF_vars(ReadDone \/ ReadFail)

\* queries and hydration while the documents of the vault are edited
NextContent ==
    \/ Build
    \/ Modify
    \/ Search
    \/ ReadDone
    \/ ReadFail

SpecContent == Init /\ [][NextContent]_vars

\* the progressive build of onload with the vault events that arrive while
\* it waits between two batches, and after it
NextProgressive ==
    \/ ProgressiveStart
    \/ ProgressiveBatch
    \/ Create
    \/ Delete
    \/ Rename
    \/ Modify

SpecProgressive == Init /\ [][NextProgressive]_vars

(***************************************************************************)
(* The lifecycle handlers step by step.  addFile is an async function: it  *)
(* runs addFileMetadata, is suspended at `await`, and rebuilds the Fuse    *)
(* index in a continuation on the microtask queue.  A search, a vault      *)
(* event or the end of a read is a task of its own, and a task starts only *)
(* when the microtask queue is empty.                                      *)
(***************************************************************************)
\* a suspended handler bars nothing: a task may start at any moment
anyMoment(t) == TRUE

\* a new task may start: no continuation is queued
runToCompletion(t) == ~t.suspended

Task(op, path, oldPath, indexedBefore, suspended) ==
    [ op |-> op, path |-> path, oldPath |-> oldPath,
      indexedBefore |-> indexedBefore, suspended |-> suspended ]

\* updateFile(file) up to the await of addFile: removeFile, then
\* addFileMetadata
updateFileBegin(ix, file, thr) ==
    IF file.extension # Extension THEN ix
    ELSE addFileMetadata(removeFile(ix, file.path, FALSE, thr), file, thr)

\* updateOnRename(file, oldPath) up to the await of addFile
updateOnRenameBegin(ix, file, oldPath, thr) ==
    IF ix.indexMap[oldPath] # NoEntry
    THEN addFileMetadata(removeFile(ix, oldPath, FALSE, thr), file, thr)
    ELSE ix

\* onload: index.build(), whose awaits are all of settled promises
BuildStep == runToCompletion(task) /\ Build

\* vault 'create' event: addFile up to its await
CreateBegin ==
    \E p \in Paths \ Present, ver \in FileVersions :
        /\ runToCompletion(task)
        /\ phase # "constructed"
        /\ Cardinality(Present) < MaxFiles
        /\ vault' = [ vault EXCEPT ![p] = ver ]
        /\ index' = IF p.extension = "md"
                    THEN addFileMetadata(index, TFile(p, ver), fuzzyThreshold)
                    ELSE index
        /\ task' = Task("create", p, NoPath, index.indexMap[p] # NoEntry,
                        p.extension = "md")
        /\ lastCall' = Call("create", p, NoPath, index.indexMap[p] # NoEntry, << >>, 0)
        /\ UNCHANGED << fuzzyThreshold, phase, reading, pending, cursor, probe, outcome >>

\* vault 'delete' event: removeFile, which has no await
DeleteStep ==
    \E p \in Present :
        /\ runToCompletion(task)
        /\ phase # "constructed"
        /\ vault' = [ vault EXCEPT ![p] = NoFile ]
        /\ index' = removeFile(index, p, FALSE, fuzzyThreshold)
        /\ task' = Task("delete", p, NoPath, index.indexMap[p] # NoEntry, FALSE)
        /\ lastCall' = Call("delete", p, NoPath, index.indexMap[p] # NoEntry, << >>, 0)
        /\ cursor' = liveFiles(cursor, p, TFile(p, vault[p]), FALSE)
        /\ UNCHANGED << fuzzyThreshold, phase, reading, pending, probe, outcome >>

\* vault 'rename' event: updateOnRename up to the await of addFile
RenameBegin ==
    \E old \in Present, new \in Paths \ Present :
        /\ runToCompletion(task)
        /\ phase # "constructed"
        /\ vault' = [ vault EXCEPT ![old] = NoFile, ![new] = vault[old] ]
        /\ index' = updateOnRenameBegin(index, TFile(new, vault[old]), old,
                                        fuzzyThreshold)
        /\ task' = Task("rename", new, old, index.indexMap[old] # NoEntry,
                        index.indexMap[old] # NoEntry)
        /\ lastCall' = Call("rename", new, old, index.indexMap[old] # NoEntry, << >>, 0)
        /\ cursor' = liveFiles(cursor, old, TFile(new, vault[old]), TRUE)
        /\ UNCHANGED << fuzzyThreshold, phase, reading, pending, probe, outcome >>

\* vault 'modify' event: updateFile up to the await of addFile
ModifyBegin ==
    \E p \in Present, ver \in FileVersions :
        /\ runToCompletion(task)
        /\ phase # "constructed"
        /\ ver # vault[p]
        /\ vault' = [ vault EXCEPT ![p] = ver ]
        /\ index' = updateFileBegin(index, TFile(p, ver), fuzzyThreshold)
        /\ task' = Task("modify", p, NoPath, index.indexMap[p] # NoEntry,
                        p.extension = "md")
        /\ lastCall' = Call("modify", p, NoPath, index.indexMap[p] # NoEntry, << >>, 0)
        /\ cursor' = liveFiles(cursor, p, TFile(p, ver), TRUE)
        /\ UNCHANGED << fuzzyThreshold, phase, reading, pending, probe, outcome >>

\* the continuation of addFile: rebuildFuse
Resume ==
    /\ task.suspended
    /\ index' = rebuildFuse(index, fuzzyThreshold)
    /\ task' = [ task EXCEPT !.suspended = FALSE ]
    /\ UNCHANGED << vault, fuzzyThreshold, phase, reading, pending, lastCall, cursor,
                    probe, outcome >>

\* the queries typed into the switcher in the step-by-step runs
SwitcherQueries == { << 12593 >>, << 44032, 45208 >> }

\* the switcher asks for suggestions, a task of its own:
\* getSuggestions calls index.search(query, 50) for a query that is not blank
SearchStep ==
    /\ runToCompletion(task)
    /\ Search
    /\ lastCall'.query \in SwitcherQueries
    /\ lastCall'.limit = FuseLimit

\* a read of the hydration ends, a task of its own
ReadStep == runToCompletion(task) /\ ReadDone

NextSteps ==
    \/ BuildStep
    \/ CreateBegin
    \/ DeleteStep
    \/ RenameBegin
    \/ ModifyBegin
    \/ Resume
    \/ SearchStep
    \/ ReadStep

SpecSteps == Init /\ [][NextSteps]_vars

(***************************************************************************)
(* The library functions on their own: a probe is drawn, the function is   *)
(* applied to it, and the plugin stands idle.                              *)
(***************************************************************************)
\* most units of a probed text
MaxTextLen == 3

\* the plugin before onload, over an empty vault
Idle ==
    /\ vault = [ p \in Paths |-> NoFile ]
    /\ index = newIndex(Paths)
    /\ fuzzyThreshold = 4
    /\ phase = "constructed"
    /\ reading = {}
    /\ pending = << >>
    /\ lastCall = Call("new", NoPath, NoPath, FALSE, << >>, 0)
    /\ cursor = << >>
    /\ task = NoTask

plugin == << vault, index, fuzzyThreshold, phase, reading, pending, lastCall, cursor,
            task >>

\* every text of at most n units over an alphabet
Texts(alphabet, n) == UNION { [ 1..k -> alphabet ] : k \in 0..n }

\* composed blocks: 가 각 갃 과 사 닭 달 이 까 (plain, with a trailing
\* consonant, with a compound trailing consonant, with a compound vowel,
\* with a doubled leading consonant)
Syllables == { 44032, 44033, 44035, 44284, 49324, 45805, 45804, 51060, 44620 }

\* bare units ㄱ ㅏ ㅅ and the other character "a"
BareUnits == { 12593, 12623, 12613 }
OtherUnits == { 97 }

HangulTexts == Texts(Syllables \cup BareUnits \cup OtherUnits, MaxTextLen)

InitHangul ==
    /\ Idle
    /\ probe \in { [ text |-> t ] : t \in HangulTexts }
    /\ outcome = Nothing

\* Hangul.disassemble(probe)
Disassemble ==
    /\ outcome = Nothing
    /\ outcome' = [ op |-> "disassemble", value |-> disassemble(probe.text) ]
    /\ UNCHANGED << plugin, probe >>

\* Hangul.assemble of the array disassemble returned
Assemble ==
    /\ outcome # Nothing
    /\ outcome.op = "disassemble"
    /\ outcome' = [ op |-> "assemble", value |-> assemble(outcome.value) ]
    /\ UNCHANGED << plugin, probe >>

NextHangul ==
    \/ Disassemble
    \/ Assemble

SpecHangul == InitHangul /\ [][NextHangul]_vars

(***************************************************************************)
(* Hangul.disassemble on every composed syllable block, one at a time.     *)
(***************************************************************************)
\* the composed syllable blocks, 가 .. 힣: _isHangul
Blocks == { c \in 44032..55203 : isHangul(c) }

InitBlocks ==
    /\ Idle
    /\ probe \in { [ block |-> c ] : c \in Blocks }
    /\ outcome = Nothing

\* Hangul.disassemble of the string of one block
DisassembleBlock ==
    /\ outcome = Nothing
    /\ outcome' = [ op |-> "block", value |-> disassemble(<< probe.block >>) ]
    /\ UNCHANGED << plugin, probe >>

NextBlocks == DisassembleBlock

SpecBlocks == InitBlocks /\ [][NextBlocks]_vars

\* most units of a probed pattern and of a probed text of the matcher
MaxPatternLen == 3
MaxProbeLen == 4

\* the units "a" "b" of the patterns and of the texts (a "b" in a text is
\* a unit the pattern "a" does not hold)
PatternUnits == { 97, 98 }
TextUnits == { 97, 98 }

\* the non-empty patterns over "a" "b", and "Ab" with a capital
Patterns == (Texts(PatternUnits, MaxPatternLen) \ { << >> }) \cup { << 65, 98 >> }

\* the configurations: threshold 0, 0.6 (Config.threshold) and 1; location
\* 0 (Config.location) and 2; distance 0, 2 and 100 (Config.distance)
MatchThresholds == { << 0, 1 >>, << 6, 10 >>, << 1, 1 >> }
MatchLocations == { 0, 2 }
MatchDistances == { 0, 2, 100 }

MatchOptions ==
    { [ location |-> l, distance |-> d, threshold |-> th,
        findAllMatches |-> FALSE, minMatchCharLength |-> 1,
        includeMatches |-> FALSE, isCaseSensitive |-> cs,
        ignoreLocation |-> il ] :
        l \in MatchLocations, d \in MatchDistances, th \in MatchThresholds,
        cs \in BOOLEAN, il \in BOOLEAN }

\* the texts a pattern is matched against: the pattern itself and the
\* short texts
ProbeTexts(pattern) == { pattern } \cup Texts(TextUnits, MaxProbeLen)

\* a pattern, a configuration and a text
InitBitap ==
    /\ Idle
    /\ probe \in UNION { { [ pattern |-> p, options |-> o, text |-> t ] :
                             o \in MatchOptions, t \in ProbeTexts(p) } :
                           p \in Patterns }
    /\ outcome = Nothing

\* new BitapSearch(pattern, options).searchIn(text)
match(pattern, options, text) == searchIn(BitapSearch(pattern, options), text)

\* the texts of at most MaxProbeLen units one edit away from a text: a unit
\* replaced, a unit removed, a unit put in
edits(text) ==
    { t \in { [ i \in 1..Len(text) |-> IF i = k THEN c ELSE text[i] ] :
                k \in 1..Len(text), c \in TextUnits }
              \cup { SubSeq(text, 1, k - 1) \o SubSeq(text, k + 1, Len(text)) :
                       k \in 1..Len(text) }
              \cup { SubSeq(text, 1, k) \o << c >> \o SubSeq(text, k + 1, Len(text)) :
                       k \in 0..Len(text), c \in TextUnits } :
        Len(t) <= MaxProbeLen /\ t # text }

\* the matcher is run on the probe
Match ==
    /\ outcome = Nothing
    /\ outcome' = [ op |-> "searchIn", text |-> probe.text,
                    value |-> match(probe.pattern, probe.options, probe.text) ]
    /\ UNCHANGED << plugin, probe >>

\* the same matcher, of a pattern of one chunk, is run on the text with one
\* more edit; the result for the text before the edit is kept beside the
\* new one
MatchEdited ==
    /\ outcome # Nothing
    /\ outcome.op = "searchIn"
    /\ Len(probe.pattern) <= MAX_BITS
    /\ Len(probe.text) <= MaxProbeLen
    /\ \E t2 \in edits(probe.text) :
          /\ probe' = [ probe EXCEPT !.text = t2 ]
          /\ outcome' = [ op |-> "edited", text |-> probe.text,
                          before |-> outcome.value,
                          value |-> match(probe.pattern, probe.options, t2) ]
    /\ UNCHANGED plugin

NextBitap ==
    \/ Match
    \/ MatchEdited

SpecBitap == InitBitap /\ [][NextBitap]_vars

\* most units of a long pattern: more than two chunks of MAX_BITS units
MaxLongLen == 70

\* the pattern of n units "abab..."
LongPattern(n) == [ i \in 1..n |-> IF i % 2 = 1 THEN 97 ELSE 98 ]

\* the texts a long pattern is matched against: the pattern itself, the
\* pattern with "x" for its last unit, and "ab"
LongTexts(pattern) ==
    { pattern, << 97, 98 >>,
      [ i \in 1..Len(pattern) |-> IF i = Len(pattern) THEN 120 ELSE pattern[i] ] }

\* the configurations of the long patterns: threshold 0 and 0.6, with and
\* without ignoreLocation, the other options as Config has them
LongOptions ==
    { [ location |-> 0, distance |-> 100, threshold |-> th,
        findAllMatches |-> FALSE, minMatchCharLength |-> 1,
        includeMatches |-> FALSE, isCaseSensitive |-> FALSE,
        ignoreLocation |-> il ] :
        th \in { << 0, 1 >>, << 6, 10 >> }, il \in BOOLEAN }

\* a pattern of 1..MaxLongLen units, a configuration and a text
InitChunks ==
    /\ Idle
    /\ probe \in UNION { { [ pattern |-> LongPattern(n), options |-> o, text |-> t ] :
                             o \in LongOptions, t \in LongTexts(LongPattern(n)) } :
                           n \in 1..MaxLongLen }
    /\ outcome = Nothing

\* new BitapSearch(pattern, options)
Construct ==
    /\ outcome = Nothing
    /\ outcome' = [ op |-> "BitapSearch",
                    searcher |-> BitapSearch(probe.pattern, probe.options) ]
    /\ UNCHANGED << plugin, probe >>

\* searcher.searchIn(text)
SearchIn ==
    /\ outcome # Nothing
    /\ outcome.op = "BitapSearch"
    /\ outcome' = [ op |-> "searchIn", text |-> probe.text,
                    searcher |-> outcome.searcher,
                    value |-> searchIn(outcome.searcher, probe.text) ]
    /\ UNCHANGED << plugin, probe >>

NextChunks ==
    \/ Construct
    \/ SearchIn

SpecChunks == InitChunks /\ [][NextChunks]_vars

\* most key descriptors of a probed key list
MaxKeys == 2

\* the names and the weights (in tenths) of the probed descriptors: the
\* weights 0.7 and 0.3 of rebuildFuse, 0 and -0.1
KeyNames == { "jamo", "display" }
KeyWeights == { -1, 0, 3, 7 }

\* the key descriptors: strings, objects with and without a name, with and
\* without a weight
KeyDescriptors ==
    { [ kind |-> "string", name |-> n ] : n \in KeyNames }
      \cup { [ kind |-> "object", hasName |-> TRUE, name |-> n,
               hasWeight |-> TRUE, weight |-> w ] : n \in KeyNames, w \in KeyWeights }
      \cup { [ kind |-> "object", hasName |-> TRUE, name |-> n,
               hasWeight |-> FALSE, weight |-> 0 ] : n \in KeyNames }
      \cup { [ kind |-> "object", hasName |-> FALSE, name |-> "",
               hasWeight |-> TRUE, weight |-> w ] : w \in KeyWeights }
      \cup { [ kind |-> "object", hasName |-> FALSE, name |-> "",
               hasWeight |-> FALSE, weight |-> 0 ] }

\* a non-empty list of key descriptors
InitKeys ==
    /\ Idle
    /\ probe \in { [ keys |-> ks ] :
                     ks \in UNION { [ 1..n -> KeyDescriptors ] : n \in 1..MaxKeys } }
    /\ outcome = Nothing

\* new KeyStore(keys)
NewKeyStore ==
    /\ outcome = Nothing
    /\ outcome' = [ op |-> "KeyStore", value |-> KeyStore(probe.keys) ]
    /\ UNCHANGED << plugin, probe >>

\* new Fuse(docs, {keys})
NewFuse ==
    /\ outcome = Nothing
    /\ outcome' = [ op |-> "Fuse", value |-> FuseConstructor(probe.keys) ]
    /\ UNCHANGED << plugin, probe >>

NextKeys ==
    \/ NewKeyStore
    \/ NewFuse

SpecKeys == InitKeys /\ [][NextKeys]_vars

\* most tokens of a probed field value
MaxTokens == 72

\* the value of n tokens: the token, n times, joined by single spaces
tokenText(token, n) ==
    [ i \in 1..(n * (Len(token) + 1) - 1) |->
        IF i % (Len(token) + 1) = 0 THEN 32 ELSE token[i % (Len(token) + 1)] ]

\* the tokens "a" and "가나"
Tokens == { << 97 >>, << 44032, 45208 >> }

\* two values of the same token, the shorter with fewer tokens
InitNorm ==
    /\ Idle
    /\ probe \in { [ shorter |-> tokenText(t, m), longer |-> tokenText(t, n) ] :
                     t \in Tokens,
                     m \in 1..(MaxTokens - 1), n \in 2..MaxTokens }
    /\ Len(probe.shorter) < Len(probe.longer)
    /\ outcome = Nothing

\* norm.get(value) for both values, as FuseIndex._addObject calls it
FieldNorms ==
    /\ outcome = Nothing
    /\ outcome' = [ op |-> "norm", shorter |-> norm(probe.shorter),
                    longer |-> norm(probe.longer) ]
    /\ UNCHANGED << plugin, probe >>

NextNorm == FieldNorms

SpecNorm == InitNorm /\ [][NextNorm]_vars

(***************************************************************************)
(* HangulIndex.search over a vault of more documents than the 50 results   *)
(* searchByStrategy asks Fuse for.                                         *)
(***************************************************************************)
\* most documents of the vault
MaxDocs == 51

\* the path of document k: "가" and the two digits of k, ".md"
docPath(k) ==
    [ basename |-> << 44032, 48 + (k \div 10), 48 + (k % 10) >>, extension |-> "md" ]

\* getMarkdownFiles() of a vault of n documents, large and modified nine
\* days ago, but for document `fresh`: small and modified a day ago
docFiles(n, fresh) ==
    [ k \in 1..n |->
        TFile(docPath(k),
              IF k = fresh
              THEN [ size |-> 500, mtime |-> 9 * (1000 * 60 * 60 * 24) ]
              ELSE [ size |-> 2000, mtime |-> 1 * (1000 * 60 * 60 * 24) ]) ]

\* queries: "가", "ㄱ"
DocQueries == { << 44032 >>, << 12593 >> }

DocLimits == { 1, 50 }

InitRanking ==
    /\ Idle
    /\ probe \in { [ n |-> n, fresh |-> fresh, query |-> query, limit |-> limit ] :
                     n \in 1..MaxDocs, fresh \in 1..MaxDocs,
                     query \in DocQueries, limit \in DocLimits }
    /\ probe.fresh \in { 1, probe.n }
    /\ outcome = Nothing

\* index.build() over the vault, then index.search(query, limit)
BuildAndSearch ==
    /\ outcome = Nothing
    /\ LET ix == build(newIndex({ docPath(k) : k \in 1..probe.n }),
                       docFiles(probe.n, probe.fresh), fuzzyThreshold)
       IN outcome' = [ op |-> "search", index |-> ix,
                       value |-> searchResult(ix, probe.query, probe.limit, Now) ]
    /\ UNCHANGED << plugin, probe >>

NextRanking == BuildAndSearch

SpecRanking == InitRanking /\ [][NextRanking]_vars

(***************************************************************************)
(* Extended search: the searchers of the pattern grammar, parseQuery and   *)
(* ExtendedSearch.searchIn for a query of one item (no space, no `|`).     *)
(***************************************************************************)
\* getMatch gives null: the expression does not match the item
NoToken == [ matched |-> FALSE, group |-> << >> ]

\* String.prototype.startsWith / endsWith
startsWith(text, pat) == Len(pat) <= Len(text) /\ SubSeq(text, 1, Len(pat)) = pat
endsWith(text, pat) ==
    Len(pat) <= Len(text) /\ SubSeq(text, Len(text) - Len(pat) + 1, Len(text)) = pat

\* getMatch(item, /^open(.*)close$/): the group of the match, or null
getMatch(item, open, close) ==
    IF Len(item) >= Len(open) + Len(close) /\ startsWith(item, open) /\ endsWith(item, close)
    THEN [ matched |-> TRUE, group |-> SubSeq(item, Len(open) + 1, Len(item) - Len(close)) ]
    ELSE NoToken

\* `const searchers = [...]`, by type: order is important
searchers ==
    << "exact", "include", "prefix-exact", "inverse-prefix-exact",
       "inverse-suffix-exact", "suffix-exact", "inverse-exact", "fuzzy" >>

\* what singleRegex has before and after its group, by type:
\* = ' ^ !^ ! (.*)$ (.*)$ ! and nothing
singleRegex(type) ==
    CASE type = "exact" -> [ open |-> << 61 >>, close |-> << >> ]
      [] type = "include" -> [ open |-> << 39 >>, close |-> << >> ]
      [] type = "prefix-exact" -> [ open |-> << 94 >>, close |-> << >> ]
      [] type = "inverse-prefix-exact" -> [ open |-> << 33, 94 >>, close |-> << >> ]
      [] type = "inverse-suffix-exact" -> [ open |-> << 33 >>, close |-> << 36 >> ]
      [] type = "suffix-exact" -> [ open |-> << >>, close |-> << 36 >> ]
      [] type = "inverse-exact" -> [ open |-> << 33 >>, close |-> << >> ]
      [] type = "fuzzy" -> [ open |-> << >>, close |-> << >> ]

\* multiRegex: the same with the group in double quotes
multiRegex(type) ==
    [ open |-> singleRegex(type).open \o << 34 >>,
      close |-> << 34 >> \o singleRegex(type).close ]

\* isMultiMatch / isSingleMatch
isMultiMatch(type, item) == getMatch(item, multiRegex(type).open, multiRegex(type).close)
isSingleMatch(type, item) ==
    getMatch(item, singleRegex(type).open, singleRegex(type).close)

\* `if (token)`: neither null nor the empty string
truthy(token) == token.matched /\ token.group # << >>

\* the two loops of parseQuery over the searchers for one item: the first
\* searcher whose multiRegex gives a token, else the first whose singleRegex
\* does
parseItem(item) ==
    LET multi == { k \in 1..Len(searchers) : truthy(isMultiMatch(searchers[k], item)) }
        single == { k \in 1..Len(searchers) : truthy(isSingleMatch(searchers[k], item)) }
        least(ks) == CHOOSE k \in ks : \A j \in ks : k <= j
    IN IF multi # {}
       THEN << [ type |-> searchers[least(multi)],
                 pattern |-> isMultiMatch(searchers[least(multi)], item).group ] >>
       ELSE IF single # {}
       THEN << [ type |-> searchers[least(single)],
                 pattern |-> isSingleMatch(searchers[least(single)], item).group ] >>
       ELSE << >>

\* InverseExactMatch.search that compares the whole text
differs(text, pattern) == text # pattern

\* InverseExactMatch.search: `text.indexOf(this.pattern) === -1`
inverseExactSearch(text, pattern) == ~Includes(text, pattern)

\* searcher.search(text).isMatch, by type
searcherIsMatch(searcher, text, options) ==
    CASE searcher.type = "exact" -> text = searcher.pattern
      [] searcher.type = "include" -> Includes(text, searcher.pattern)
      [] searcher.type = "prefix-exact" -> startsWith(text, searcher.pattern)
      [] searcher.type = "inverse-prefix-exact" -> ~startsWith(text, searcher.pattern)
      [] searcher.type = "inverse-suffix-exact" -> ~endsWith(text, searcher.pattern)
      [] searcher.type = "suffix-exact" -> endsWith(text, searcher.pattern)
      [] searcher.type = "inverse-exact" -> inverseExactSearch(text, searcher.pattern)
      [] searcher.type = "fuzzy" ->
           searchIn(BitapSearch(searcher.pattern, options), text).isMatch

\* new ExtendedSearch(pattern, options).searchIn(text).isMatch for a
\* pattern of one item: the item is lowered and parsed, the text is lowered
extendedIsMatch(pattern, options, text) ==
    LET query == parseItem(IF options.isCaseSensitive THEN pattern
                           ELSE toLowerCase(pattern))
        lowered == IF options.isCaseSensitive THEN text ELSE toLowerCase(text)
    IN \A j \in 1..Len(query) : searcherIsMatch(query[j], lowered, options)

\* most units of a payload and of a text
MaxTokenLen == 2

\* units of payloads and texts: a, B, ^, $, =
TokenUnits == { 97, 66, 94, 36, 61 }

\* the grammar's markers: = ' ^ ! $ "
Markers == { 61, 39, 94, 33, 36, 34 }

\* what goes before and after the payload in a positive token and in its
\* negation
TokenPairs ==
    { [ kind |-> "exact", open |-> << 61 >>, negOpen |-> << 33 >>, close |-> << >> ],
      [ kind |-> "include", open |-> << 39 >>, negOpen |-> << 33 >>, close |-> << >> ],
      [ kind |-> "prefix", open |-> << 94 >>, negOpen |-> << 33, 94 >>, close |-> << >> ],
      [ kind |-> "suffix", open |-> << >>, negOpen |-> << 33 >>, close |-> << 36 >> ] }

\* the options of the Config defaults
ConfigOptions ==
    [ location |-> 0, distance |-> 100, threshold |-> << 6, 10 >>,
      findAllMatches |-> FALSE, minMatchCharLength |-> 1, includeMatches |-> FALSE,
      isCaseSensitive |-> FALSE, ignoreLocation |-> FALSE ]

InitGrammar ==
    /\ Idle
    /\ probe \in { [ pair |-> pair, payload |-> x, text |-> text ] :
                     pair \in TokenPairs,
                     x \in Texts(TokenUnits, MaxTokenLen),
                     text \in Texts(TokenUnits, MaxTokenLen) }
    /\ outcome = Nothing

\* the positive token and its negation, each searched in the text
SearchTokens ==
    /\ outcome = Nothing
    /\ LET positive == probe.pair.open \o probe.payload \o probe.pair.close
           negative == probe.pair.negOpen \o probe.payload \o probe.pair.close
       IN outcome' = [ op |-> "extended",
                       positive |-> extendedIsMatch(positive, ConfigOptions, probe.text),
                       negative |-> extendedIsMatch(negative, ConfigOptions, probe.text) ]
    /\ UNCHANGED << plugin, probe >>

NextGrammar == SearchTokens

SpecGrammar == InitGrammar /\ [][NextGrammar]_vars

(***************************************************************************)
(* Fuse.add, Fuse.remove and Fuse.removeAt on a Fuse object over object    *)
(* documents with the keys jamo and display.  The object is the record     *)
(* [docs, records]: this._docs and this._myIndex.records.                  *)
(***************************************************************************)
\* most documents the Fuse object holds
MaxIndexDocs == 3

\* documents: 가, 나, and one whose values are blank
IndexDocs ==
    { [ display |-> << 44032 >>, jamo |-> << 12593, 12623 >> ],
      [ display |-> << 45208 >>, jamo |-> << 12596, 12623 >> ],
      [ display |-> << 32 >>, jamo |-> << >> ] }

\* queries: "ㄱㅏ", "나"
IndexQueries == { << 12593, 12623 >>, << 45208 >> }

\* FuseIndex.removeAt that leaves the positional indices as they are
spliceOnly(records, idx) == splice1(records, idx)

\* FuseIndex.add(doc): idx = this.size(), then _addObject(doc, idx)
FuseIndexAdd(records, doc) == Append(records, addObject(doc, Len(records)))

\* FuseIndex.removeAt(idx): splice, then `records[i].i -= 1` from idx on
FuseIndexRemoveAt(records, idx) ==
    LET spliced == splice1(records, idx)
    IN [ k \in 1..Len(spliced) |->
           IF k - 1 >= idx THEN [ spliced[k] EXCEPT !.i = @ - 1 ] ELSE spliced[k] ]

\* Fuse.add(doc), doc being defined
FuseAddDoc(fuse, doc) ==
    [ docs |-> Append(fuse.docs, doc), records |-> FuseIndexAdd(fuse.records, doc) ]

\* Fuse.removeAt(idx)
FuseRemoveAtIdx(fuse, idx) ==
    [ docs |-> splice1(fuse.docs, idx), records |-> FuseIndexRemoveAt(fuse.records, idx) ]

RECURSIVE FuseRemoveFrom(_, _, _)
\* Fuse.remove(predicate): the loop from position i on (0-based); a removal
\* steps i and len back by one
FuseRemoveFrom(fuse, Predicate(_, _), i) ==
    IF i >= Len(fuse.docs) THEN fuse
    ELSE IF Predicate(fuse.docs[i + 1], i)
         THEN FuseRemoveFrom(FuseRemoveAtIdx(fuse, i), Predicate, i)
         ELSE FuseRemoveFrom(fuse, Predicate, i + 1)

\* the Fuse object as FuseSearch reads it
fuseOf(state) == [ options |-> ConfigOptions, records |-> state.records ]

FuseState(op, fuse, shifted, result) ==
    [ op |-> op, docs |-> fuse.docs, records |-> fuse.records, shifted |-> shifted,
      result |-> result ]

\* new Fuse(docs, {keys}) over an array of at most MaxIndexDocs documents
InitFuse ==
    /\ Idle
    /\ probe = Nothing
    /\ \E docs \in UNION { [ 1..n -> IndexDocs ] : n \in 0..MaxIndexDocs } :
         outcome = FuseState("new", [ docs |-> docs, records |-> createIndex(docs) ],
                             FALSE, << >>)

\* fuse.add(doc)
FuseAdd ==
    \E doc \in IndexDocs :
        /\ outcome # Nothing
        /\ Len(outcome.docs) < MaxIndexDocs
        /\ outcome' = FuseState("add", FuseAddDoc(outcome, doc), outcome.shifted, << >>)
        /\ UNCHANGED << plugin, probe >>

\* fuse.removeAt(idx), idx from 0 to the length of the array
FuseRemoveAt ==
    \E idx \in 0..MaxIndexDocs :
        /\ outcome # Nothing
        /\ idx <= Len(outcome.docs)
        /\ outcome' = FuseState("removeAt", FuseRemoveAtIdx(outcome, idx),
                                outcome.shifted \/ idx + 1 < Len(outcome.docs), << >>)
        /\ UNCHANGED << plugin, probe >>

\* fuse.remove(doc => doc.display === display)
FuseRemove ==
    \E d \in IndexDocs :
        /\ outcome # Nothing
        /\ LET Predicate(doc, i) == doc.display = d.display
               first == { k \in 1..Len(outcome.docs) : outcome.docs[k].display = d.display }
           IN outcome' = FuseState("remove", FuseRemoveFrom(outcome, Predicate, 0),
                                   outcome.shifted
                                     \/ \E k \in first : k < Len(outcome.docs), << >>)
        /\ UNCHANGED << plugin, probe >>

\* fuse.search(query)
FuseSearchAll ==
    \E query \in IndexQueries :
        /\ outcome # Nothing
        /\ outcome.op # "search"
        /\ outcome' = FuseState("search", outcome, outcome.shifted,
                                FuseSearch(fuseOf(outcome), outcome.docs, query, -1))
        /\ UNCHANGED << plugin, probe >>

NextFuse ==
    \/ FuseAdd
    \/ FuseRemoveAt
    \/ FuseRemove
    \/ FuseSearchAll

SpecFuse == InitFuse /\ [][NextFuse]_vars

(***************************************************************************)
(* Properties of index maintenance (SpecIndex).                            *)
(***************************************************************************)
\* the paths the index holds a record for
indexedPaths(ix) == { ix.entries[i].path : i \in 1..Len(ix.entries) }

\* the paths of a result list
resultPaths(res) == { res[i].path : i \in 1..Len(res) }

\* path, display name and atomic field of every record
identities(ix) ==
    { [ path |-> ix.entries[i].path, display |-> ix.entries[i].display,
        jamo |-> ix.entries[i].jamo ] : i \in 1..Len(ix.entries) }

\* a new index built over the vault as it is
freshBuild ==
    LET order == CHOOSE o \in Orderings(Present \cap MdPaths) : TRUE
    IN build(newIndex(Paths), [ i \in DOMAIN order |-> TFile(order[i], vault[order[i]]) ],
             fuzzyThreshold)

\* C1: after any run of vault events on a built index, the indexed paths and
\* the display and atomic fields of the records are those of a fresh build
\* over the documents the vault holds now
C1_IncrementalEqualsFreshBuild ==
    phase = "built" => identities(index) = identities(freshBuild)

\* the last operation renamed a document that had a record
renamedIndexed == lastCall.op = "rename" /\ lastCall.indexedBefore

\* no query returns the path
neverReturned(path) ==
    \A query \in Queries :
        trim(query) # << >> => path \notin resultPaths(sortedResults(index, query, Now))

\* C2 as stated: after the rename of an indexed oldPath the index holds a
\* record for ref.path and none for oldPath, and no search returns oldPath
C2_RenameMovesRecord ==
    renamedIndexed =>
        /\ lastCall.path \in indexedPaths(index)
        /\ index.indexMap[lastCall.path] # NoEntry
        /\ lastCall.oldPath \notin indexedPaths(index)
        /\ index.indexMap[lastCall.oldPath] = NoEntry
        /\ neverReturned(lastCall.oldPath)

\* C2, amended: after the rename of an indexed oldPath the index holds no
\* record for oldPath and no search returns oldPath; it holds a record for
\* ref.path exactly when ref is a markdown document; and in every state a
\* search returns indexed paths only, so oldPath stays out of the results
\* until a document is indexed under it again
C2_RenameMovesMarkdownRecord ==
    /\ index.fuse # NoFuse =>
          \A query \in Queries :
              trim(query) # << >> =>
                  resultPaths(sortedResults(index, query, Now)) \subseteq indexedPaths(index)
    /\ renamedIndexed =>
          /\ lastCall.oldPath \notin indexedPaths(index)
          /\ index.indexMap[lastCall.oldPath] = NoEntry
          /\ (lastCall.path.extension = Extension) = (lastCall.path \in indexedPaths(index))
          /\ (lastCall.path.extension = Extension) = (index.indexMap[lastCall.path] # NoEntry)

\* a markdown document was renamed to a markdown path beside another record
C2_Witness ==
    /\ renamedIndexed
    /\ lastCall.path.extension = Extension
    /\ lastCall.path \in indexedPaths(index)
    /\ getIndexedCount(index) = 2

\* C3: a rename whose new path is a markdown document leaves a record for
\* the new path, also when the old path had none
C3_RenameInAddsRecord ==
    (lastCall.op = "rename" /\ lastCall.path.extension = Extension) =>
        index.indexMap[lastCall.path] # NoEntry

\* the entries without the record of a path, the others in place
without(entries, path) ==
    SelectIdx(entries, LAMBDA e : e.path # path)

\* C5: removing an indexed path lowers the count by exactly one and leaves
\* every other record in place; removing a path that has no record leaves the
\* count and all records as they were
C5_RemoveLowersCountByOne ==
    [][ lastCall'.op = "delete" =>
          IF lastCall'.path \in indexedPaths(index)
          THEN /\ getIndexedCount(index') = getIndexedCount(index) - 1
               /\ index'.entries = without(index.entries, lastCall'.path)
               /\ index'.indexMap = [ index.indexMap EXCEPT ![lastCall'.path] = NoEntry ]
          ELSE /\ getIndexedCount(index') = getIndexedCount(index)
               /\ index'.entries = index.entries
               /\ index'.indexMap = index.indexMap ]_vars

\* an indexed document was removed and another record is still there
C5_Witness ==
    /\ lastCall.op = "delete"
    /\ lastCall.indexedBefore
    /\ lastCall.path \notin indexedPaths(index)
    /\ getIndexedCount(index) = 1

(***************************************************************************)
(* Properties of search (SpecSearch).                                      *)
(***************************************************************************)
\* C4: a search with an empty or whitespace-only query returns the empty
\* list in every index state and starts no content hydration (it changes
\* nothing of the index, the reads in flight or the batches to come)
C4_BlankQueryReturnsNothing ==
    [][ (lastCall'.op = "search" /\ trim(lastCall'.query) = << >>) =>
          /\ searchResult(index, lastCall'.query, lastCall'.limit, Now) = << >>
          /\ reading' = reading
          /\ pending' = pending
          /\ index' = index ]_vars

\* a blank query ran over two documents, none cached, none being read
C4_Witness ==
    /\ lastCall.op = "search"
    /\ trim(lastCall.query) = << >>
    /\ lastCall.limit > 0
    /\ getIndexedCount(index) = 2
    /\ reading = {}
    /\ \A p \in Paths : index.contentCache[p] = NoEntry

\* the scores of a path in a result list
scoresOf(res, path) ==
    { res[i].score : i \in { k \in 1..Len(res) : res[k].path = path } }

\* the bonused scores the strategies compute for a path, each strategy run
\* on its own
strategyScores(ix, query, path) ==
    scoresOf(searchByStrategy(ix, query, << >>, "direct", Now), path)
    \cup (IF decomposeKoreanText(query) # query
          THEN scoresOf(searchByStrategy(ix, decomposeKoreanText(query), << >>,
                                         "decomposed", Now), path)
          ELSE {})
    \cup (IF isInitialConsonantQuery(query)
          THEN scoresOf(searchByInitialConsonants(ix, query, << >>, Now), path)
          ELSE {})
    \cup (IF isPartialSyllableQuery(query)
          THEN scoresOf(searchByPartialSyllables(ix, query, << >>, Now), path)
          ELSE {})

\* C6: every path occurs at most once in the list a search returns, and the
\* score of a document is the highest of the bonused scores the strategies
\* that matched it computed
C6_OncePerPathWithBestScore ==
    lastCall.op = "search" =>
        LET res == lastResult
        IN /\ \A i, j \in 1..Len(res) : res[i].path = res[j].path => i = j
           /\ \A i \in 1..Len(res) :
                 LET scores == strategyScores(index, lastCall.query, res[i].path)
                 IN /\ res[i].score \in scores
                    /\ \A sc \in scores : sc <= res[i].score

\* a returned document was matched by strategies that scored it differently
C6_Witness ==
    /\ lastCall.op = "search"
    /\ \E i \in 1..Len(lastResult) :
          Cardinality(strategyScores(index, lastCall.query, lastResult[i].path)) >= 2

\* C7: the list search(query, limit) returns is ordered by non-increasing
\* score and has at most limit elements, for every limit >= 0
C7_SortedAndTruncated ==
    lastCall.op = "search" =>
        LET res == lastResult
        IN /\ Len(res) <= lastCall.limit
           /\ \A i \in 1..(Len(res) - 1) : res[i].score >= res[i + 1].score

\* a search returned two documents with different scores
C7_Witness ==
    /\ lastCall.op = "search"
    /\ Len(lastResult) = 2
    /\ lastResult[1].score > lastResult[2].score

\* C8: with the threshold set to 0, a query equal to the display name of a
\* document returns that document first and returns no document whose
\* display name differs from the query
C8_ThresholdZeroIsExact ==
    ( /\ lastCall.op = "search"
      /\ fuzzyThreshold = 0
      /\ lastCall.limit > 0
      /\ \E i \in 1..Len(index.entries) : index.entries[i].display = lastCall.query ) =>
        LET res == lastResult
        IN /\ res # << >>
           /\ res[1].display = lastCall.query
           /\ \A i \in 1..Len(res) : res[i].display = lastCall.query

\* the leading consonant of each syllable of a name, by the arithmetic of the
\* Hangul syllables block (588 syllables per leading consonant); other units
\* stay as they are
leadingUnits(display) ==
    [ i \in 1..Len(display) |->
        IF display[i] >= 44032 /\ display[i] <= 55203
        THEN CHO[((display[i] - 44032) \div 588) + 1]
        ELSE display[i] ]

\* the per-character leading-consonant string of the entry contains the query
initialsContain(entry, query) ==
    Includes(leadingUnits(entry.display), query)

\* C9, amended: for a query made only of leading-consonant units, search
\* returns every indexed document whose leading-consonant string contains
\* the query (unless the limit cuts the list) and returns no document that
\* holds none of the units of the query; the order among the returned
\* documents follows the scores, where a direct match outweighs a
\* leading-consonant match
C9_InitialsFoundAndNoStranger ==
    (lastCall.op = "search" /\ isInitialConsonantQuery(lastCall.query)) =>
        LET res == lastResult
        IN /\ \A i \in 1..Len(index.entries) :
                 initialsContain(index.entries[i], lastCall.query) =>
                     \/ index.entries[i].path \in resultPaths(res)
                     \/ Len(res) = lastCall.limit
           /\ \A i \in 1..Len(res) : Range(lastCall.query) \cap Range(res[i].jamo) # {}

\* C9 as stated: the same, and every returned document whose
\* leading-consonant string contains the query stands above every returned
\* document whose leading-consonant string does not
C9_InitialsRankedFirst ==
    (lastCall.op = "search" /\ isInitialConsonantQuery(lastCall.query)) =>
        LET res == lastResult
        IN /\ \A i \in 1..Len(index.entries) :
                 initialsContain(index.entries[i], lastCall.query) =>
                     \/ index.entries[i].path \in resultPaths(res)
                     \/ Len(res) = lastCall.limit
           /\ \A i \in 1..Len(res) : Range(lastCall.query) \cap Range(res[i].jamo) # {}
           /\ \A i, j \in 1..Len(res) :
                 ( /\ initialsContain(res[i], lastCall.query)
                   /\ ~initialsContain(res[j], lastCall.query) ) => i < j

\* a leading-consonant query returned a document whose initials contain it,
\* while an indexed document holding none of its units was left out
C9_Witness ==
    /\ lastCall.op = "search"
    /\ isInitialConsonantQuery(lastCall.query)
    /\ \E i \in 1..Len(lastResult) : initialsContain(lastResult[i], lastCall.query)
    /\ \E i \in 1..Len(index.entries) :
          /\ Range(lastCall.query) \cap Range(index.entries[i].jamo) = {}
          /\ index.entries[i].path \notin resultPaths(lastResult)

\* C10: once the content of a document has been loaded, a query that matches
\* its content preview and not its display name returns the document
C10_LoadedContentIsSearched ==
    (lastCall.op = "search" /\ trim(lastCall.query) # << >>) =>
        \A i \in 1..Len(index.entries) :
            LET entry == index.entries[i]
                cached == index.contentCache[entry.path]
            IN ( /\ cached # NoEntry
                 /\ Includes(toLowerCase(cached.content), toLowerCase(lastCall.query))
                 /\ ~Includes(toLowerCase(entry.display), toLowerCase(lastCall.query))
                 /\ getIndexedCount(index) <= lastCall.limit ) =>
                    entry.path \in resultPaths(lastResult)

(***************************************************************************)
(* Properties of content hydration.                                        *)
(***************************************************************************)
\* the indexed record of a path is content-hydrated: contentLoaded with the
\* preview of the file in its content fields
hydrated(ix, p) ==
    /\ ix.indexMap[p] # NoEntry
    /\ ix.indexMap[p].contentLoaded
    /\ ix.indexMap[p].content # << >>

\* C11: whenever the content read of an indexed document that a search put
\* among its top results has succeeded, the indexed record of the document
\* is eventually content-hydrated (or the document has left the index)
C11_HydrationReachesIndex ==
    \A p \in MdPaths :
        (lastCall.op = "readDone" /\ lastCall.path = p /\ index.indexMap[p] # NoEntry)
            ~> (index.indexMap[p] = NoEntry \/ hydrated(index, p))

\* C12: a modify notification leaves no cached content for the path
C12_ModifyDropsCachedContent ==
    [][lastCall'.op = "modify" => index'.contentCache[lastCall'.path] = NoEntry]_vars

\* C13: the search that follows a failed content read of a document does not
\* start another read of that document
C13_FailedReadIsNotRetried ==
    [][(lastCall.op = "readFail" /\ lastCall'.op = "search")
          => lastCall.path \notin reading']_vars

(***************************************************************************)
(* Properties of the progressive build (SpecProgressive).                  *)
(***************************************************************************)
\* C14: every step of a rebuild either leaves the indexed documents as the
\* observers saw them before the step or installs the complete rebuilt
\* index; no step leaves a partially filled index behind
C14_RebuildIsAtomic ==
    [][lastCall'.op \in { "progressiveStart", "progressiveBatch" }
          => (indexedPaths(index') = indexedPaths(index) \/ cursor' = << >>)]_vars

\* C15: when the last batch of a build has run, the indexed paths are the
\* markdown documents the vault holds, whatever notifications arrived
\* between the batches
C15_BuildSettlesOnVault ==
    (lastCall.op = "progressiveBatch" /\ cursor = << >>)
        => indexedPaths(index) = Present \cap MdPaths

(***************************************************************************)
(* Properties of Hangul.disassemble and Hangul.assemble (SpecHangul).      *)
(***************************************************************************)
\* the text is made of composed syllable blocks only
syllablesOnly(text) == \A i \in 1..Len(text) : isHangul(text[i])

\* C16: assembling the decomposition of a text of composed syllable blocks
\* gives the text back
C16_SyllablesRoundTrip ==
    (outcome # Nothing /\ outcome.op = "assemble" /\ syllablesOnly(probe.text))
        => outcome.value = probe.text

\* a text with a compound trailing consonant, with a compound vowel and with
\* a trailing consonant before a leading consonant it could join (각 사) has
\* made the round trip
C16_Witness ==
    /\ outcome # Nothing
    /\ outcome.op = "assemble"
    /\ probe.text = << 44033, 49324, 45805 >>
    /\ outcome.value = probe.text

\* C17 as stated: assembling the decomposition of any text of composed
\* blocks, bare units and other characters gives the text back
C17_AnyTextRoundTrip ==
    (outcome # Nothing /\ outcome.op = "assemble") => outcome.value = probe.text

\* the text holds no bare consonant or vowel
noBareUnits(text) == \A i \in 1..Len(text) : ~isConsonant(text[i]) /\ ~isJung(text[i])

\* C17, amended: assembling the decomposition gives the text back when the
\* text holds no bare unit; for every text it gives a text with the same
\* decomposition, in which bare units that form a block are composed
C17_RoundTripUpToComposition ==
    (outcome # Nothing /\ outcome.op = "assemble") =>
        /\ noBareUnits(probe.text) => outcome.value = probe.text
        /\ disassemble(outcome.value) = disassemble(probe.text)

\* a bare leading consonant directly followed by a bare vowel came back as
\* the one block they form
C17_Witness ==
    /\ outcome # Nothing
    /\ outcome.op = "assemble"
    /\ probe.text = << 97, 12593, 12623 >>
    /\ outcome.value = << 97, 44032 >>

(***************************************************************************)
(* Properties of the bitap matcher (SpecBitap).                            *)
(***************************************************************************)
\* the matcher has been run on the probe
matched == outcome # Nothing /\ outcome.op \in { "searchIn", "edited" }

\* C18: matching a pattern against the text equal to it gives isMatch =
\* true with the score 0, and no run of the matcher gives a lower score:
\* for every non-empty pattern, threshold, location, distance, case
\* sensitivity and location mode
C18_SelfMatchIsBest ==
    matched =>
        /\ RatLE(<< 0, 1 >>, outcome.value.score)
        /\ probe.text = probe.pattern =>
              outcome.value.isMatch /\ outcome.value.score[1] = 0

\* "ab" matched against "ab" with the expected location 2, distance 0 and
\* threshold 0, where the scan alone would score the occurrence at 0 as 1
C18_Witness ==
    /\ matched
    /\ probe.pattern = << 97, 98 >>
    /\ probe.text = << 97, 98 >>
    /\ probe.options.location = 2
    /\ probe.options.distance = 0
    /\ probe.options.threshold = << 0, 1 >>
    /\ ~probe.options.ignoreLocation
    /\ outcome.value.isMatch

\* C19 as stated: a match is never reported with a score above the
\* configured threshold, for every pattern of at most 32 units, every text
\* and every threshold, with and without ignoreLocation
C19_MatchWithinThresholdAsStated ==
    (matched /\ Len(probe.pattern) <= MAX_BITS /\ outcome.value.isMatch)
        => RatLE(outcome.value.score, probe.options.threshold)

\* C19: a match is never reported with a score above the configured
\* threshold; here a score of at most 0.001, the least score the scan
\* gives, also passes, so that a violation is a score the threshold
\* rejects and not the floor of the score of an exact occurrence
C19_MatchWithinThreshold ==
    (matched /\ Len(probe.pattern) <= MAX_BITS /\ outcome.value.isMatch)
        => \/ RatLE(outcome.value.score, probe.options.threshold)
           \/ RatLE(outcome.value.score, << 1, 1000 >>)

RECURSIVE alignRow(_, _, _, _)
\* one column of the table of approximate matching: acc[i + 1] is the least
\* number of edits that turn pattern[1..i] into a stretch of the text that
\* ends at the unit c; prev is the column of the unit before
alignRow(pattern, prev, c, acc) ==
    IF Len(acc) = Len(pattern) + 1 THEN acc
    ELSE LET i == Len(acc)
             subst == prev[i] + (IF pattern[i] = c THEN 0 ELSE 1)
         IN alignRow(pattern, prev, c,
                     Append(acc, Min2(subst, Min2(prev[i + 1] + 1, acc[i] + 1))))

RECURSIVE alignFrom(_, _, _, _, _)
alignFrom(pattern, text, j, prev, best) ==
    IF j > Len(text) THEN best
    ELSE Let(alignRow(pattern, prev, text[j], << 0 >>),
           LAMBDA row : alignFrom(pattern, text, j + 1, row,
                                  Min2(best, row[Len(pattern) + 1])))

\* the number of errors of the best alignment of the pattern in the text:
\* the least edit distance between the pattern and a stretch of the text
alignmentErrors(pattern, text) ==
    alignFrom(pattern, text, 1, [ i \in 1..(Len(pattern) + 1) |-> i - 1 ],
              Len(pattern))

\* the errors of the best alignment as the matcher of the probe sees the
\* units (case folded unless isCaseSensitive)
probeErrors(text) ==
    IF probe.options.isCaseSensitive
    THEN alignmentErrors(probe.pattern, text)
    ELSE alignmentErrors(toLowerCase(probe.pattern), toLowerCase(text))

\* C20 as stated: for a fixed pattern, location and configuration, when one
\* more edit of the text leaves the pattern's best alignment with at least
\* as many errors, the score of the edited text is not lower
C20_ScoreMonotoneInEdits ==
    (outcome # Nothing /\ outcome.op = "edited"
        /\ probeErrors(probe.text) >= probeErrors(outcome.text))
        => RatLE(outcome.before.score, outcome.value.score)

\* the units as the matcher of the probe compares them
folded(text) == IF probe.options.isCaseSensitive THEN text ELSE toLowerCase(text)

\* C20 (amended): with ignoreLocation, for a fixed pattern and
\* configuration, when one more edit of the text leaves the pattern's best
\* alignment with at least as many errors, and the edited text is not the
\* pattern itself, the score of the edited text is not lower
C20_ScoreMonotoneWithoutLocation ==
    (outcome # Nothing /\ outcome.op = "edited"
        /\ probe.options.ignoreLocation
        /\ folded(probe.text) # folded(probe.pattern)
        /\ probeErrors(probe.text) >= probeErrors(outcome.text))
        => RatLE(outcome.before.score, outcome.value.score)

\* "ab" in "aab" (no error, score 0.001), then in "aaa" after one more
\* edit (one error, score 1/2), with ignoreLocation and threshold 0.6
C20_Witness ==
    /\ outcome # Nothing
    /\ outcome.op = "edited"
    /\ probe.options.ignoreLocation
    /\ probe.options.threshold = << 6, 10 >>
    /\ probe.pattern = << 97, 98 >>
    /\ outcome.text = << 97, 97, 98 >>
    /\ probe.text = << 97, 97, 97 >>
    /\ probeErrors(outcome.text) = 0
    /\ probeErrors(probe.text) = 1
    /\ outcome.before.isMatch
    /\ outcome.before.score = << 1, 1000 >>
    /\ outcome.value.isMatch
    /\ RatLE(outcome.value.score, << 1, 2 >>)
    /\ RatLE(<< 1, 2 >>, outcome.value.score)

(***************************************************************************)
(* Properties of the chunks of a pattern (SpecChunks).                     *)
(***************************************************************************)
\* the pattern positions (0-based) a chunk holds
chunkPositions(chunk) == chunk.startIndex..(chunk.startIndex + Len(chunk.pattern) - 1)

\* C21: a pattern of any length n >= 1 is matched without the
\* pattern-too-long error: its chunks have at most 32 units each, each chunk
\* is the stretch of the pattern at its starting index, and together they
\* cover every pattern position
C21_LongPatternIsChunked ==
    (outcome # Nothing /\ outcome.op \in { "BitapSearch", "searchIn" }
        /\ "searcher" \in DOMAIN outcome) =>
        LET chunks == outcome.searcher.chunks
            n == Len(probe.pattern)
        IN /\ \A k \in 1..Len(chunks) :
                 /\ Len(chunks[k].pattern) >= 1
                 /\ Len(chunks[k].pattern) <= MAX_BITS
                 /\ chunks[k].pattern =
                      SubSeq(outcome.searcher.pattern, chunks[k].startIndex + 1,
                             chunks[k].startIndex + Len(chunks[k].pattern))
           /\ UNION { chunkPositions(chunks[k]) : k \in 1..Len(chunks) } = 0..(n - 1)
           /\ outcome.op = "searchIn" => ~outcome.value.thrown

\* a pattern of 65 units was cut into three chunks and matched against a
\* text other than itself
C21_Witness ==
    /\ outcome # Nothing
    /\ outcome.op = "searchIn"
    /\ "searcher" \in DOMAIN outcome
    /\ Len(probe.pattern) = 65
    /\ probe.text # probe.pattern
    /\ Len(probe.text) = 65
    /\ Len(outcome.searcher.chunks) = 3
    /\ ~outcome.value.thrown

\* C25 as stated: the chunks of a pattern longer than 32 units are
\* consecutive: chunk k starts at pattern index 32 * k and no pattern
\* position belongs to two chunks
C25_ChunksAreConsecutive ==
    (outcome # Nothing /\ outcome.op \in { "BitapSearch", "searchIn" }
        /\ "searcher" \in DOMAIN outcome /\ Len(probe.pattern) > MAX_BITS) =>
        LET chunks == outcome.searcher.chunks
        IN /\ \A k \in 1..Len(chunks) : chunks[k].startIndex = MAX_BITS * (k - 1)
           /\ \A j, k \in 1..Len(chunks) :
                 j # k => chunkPositions(chunks[j]) \cap chunkPositions(chunks[k]) = {}

RECURSIVE offsetScoreSum(_, _, _, _)
\* the sum of the scores of the first k chunks, each searched on its own
\* with the location of the pattern moved by the chunk's starting index
offsetScoreSum(chunks, options, text, k) ==
    IF k = 0 THEN << 0, 1 >>
    ELSE RatAdd(offsetScoreSum(chunks, options, text, k - 1),
                search(text, chunks[k].pattern, createPatternAlphabet(chunks[k].pattern),
                       [ options EXCEPT !.location =
                           options.location + chunks[k].startIndex ]).score)

\* C25 (amended): of a pattern of n > 32 units, chunk k of the first
\* n \div 32 chunks holds the 32 units from index 32 * k; when 32 does not
\* divide n a last chunk holds the last 32 units, from index n - 32, and
\* shares 32 - n % 32 positions with the chunk before it; the score of a
\* match is the mean of the scores of the chunks, each searched with the
\* location moved by its starting index
C25_ChunksAndOffsets ==
    (outcome # Nothing /\ outcome.op \in { "BitapSearch", "searchIn" }
        /\ "searcher" \in DOMAIN outcome /\ Len(probe.pattern) > MAX_BITS) =>
        LET chunks == outcome.searcher.chunks
            n == Len(probe.pattern)
            full == n \div MAX_BITS
        IN /\ Len(chunks) = full + (IF n % MAX_BITS = 0 THEN 0 ELSE 1)
           /\ \A k \in 1..Len(chunks) :
                 /\ Len(chunks[k].pattern) = MAX_BITS
                 /\ chunks[k].startIndex =
                      IF k <= full THEN MAX_BITS * (k - 1) ELSE n - MAX_BITS
           /\ (n % MAX_BITS # 0) =>
                 Cardinality(chunkPositions(chunks[full]) \cap
                             chunkPositions(chunks[full + 1])) = MAX_BITS - (n % MAX_BITS)
           /\ (outcome.op = "searchIn" /\ outcome.value.isMatch
                  /\ probe.text # outcome.searcher.pattern) =>
                 Let(offsetScoreSum(chunks, outcome.searcher.options, probe.text,
                                    Len(chunks)),
                   LAMBDA sum :
                     /\ RatLE(outcome.value.score, << sum[1], sum[2] * Len(chunks) >>)
                     /\ RatLE(<< sum[1], sum[2] * Len(chunks) >>, outcome.value.score))

\* a pattern of 65 units: chunks from 0, 32 and 33, matched by location
\* against the pattern with its last unit changed
C25_Witness ==
    /\ outcome # Nothing
    /\ outcome.op = "searchIn"
    /\ "searcher" \in DOMAIN outcome
    /\ Len(probe.pattern) = 65
    /\ Len(probe.text) = 65
    /\ probe.text # probe.pattern
    /\ ~probe.options.ignoreLocation
    /\ Len(outcome.searcher.chunks) = 3
    /\ outcome.searcher.chunks[3].startIndex = 33
    /\ outcome.value.isMatch

(***************************************************************************)
(* Properties of the keys of an index (SpecKeys).                          *)
(***************************************************************************)
\* a key descriptor that is an object without a name
nameless(key) == key.kind = "object" /\ ~key.hasName

\* a key descriptor that is an object with a weight of 0 or less
weightless(key) == key.kind = "object" /\ key.hasWeight /\ key.weight <= 0

\* C22 as stated: the construction of an index aborts exactly when a key
\* descriptor lacks its name, whatever the weights
C22_AbortsOnlyWithoutName ==
    (outcome # Nothing /\ outcome.op = "Fuse") =>
        (outcome.value.thrown # "" <=>
            \E k \in 1..Len(probe.keys) : nameless(probe.keys[k]))

\* C22 (amended): the construction of an index aborts exactly when a key
\* descriptor lacks its name or carries a weight of 0 or less
C22_AbortsWithoutNameOrWeight ==
    (outcome # Nothing /\ outcome.op = "Fuse") =>
        (outcome.value.thrown # "" <=>
            \E k \in 1..Len(probe.keys) :
                nameless(probe.keys[k]) \/ weightless(probe.keys[k]))

\* every key of the list is named, the second has the weight 0, and the
\* construction aborted
C22_Witness ==
    /\ outcome # Nothing
    /\ outcome.op = "Fuse"
    /\ Len(probe.keys) = 2
    /\ probe.keys[1] = [ kind |-> "object", hasName |-> TRUE, name |-> "jamo",
                         hasWeight |-> TRUE, weight |-> 7 ]
    /\ probe.keys[2] = [ kind |-> "object", hasName |-> TRUE, name |-> "display",
                         hasWeight |-> TRUE, weight |-> 0 ]
    /\ outcome.value.thrown = "INVALID_KEY_WEIGHT_VALUE"

RECURSIVE weightSum(_, _)
\* the sum of the normalized weights of the first k keys of a key store
weightSum(keys, k) ==
    IF k = 0 THEN << 0, 1 >> ELSE RatAdd(weightSum(keys, k - 1), keys[k].weight)

\* C23: after a key store is constructed from a non-empty list of keys
\* with positive weights, the normalized weights of its keys sum to 1
C23_WeightsSumToOne ==
    (outcome # Nothing /\ outcome.op = "KeyStore" /\ outcome.value.thrown = "") =>
        weightSum(outcome.value.keys, Len(outcome.value.keys)) = << 1, 1 >>

(***************************************************************************)
(* Properties of the field-length norm (SpecNorm).                         *)
(***************************************************************************)
\* the number of tokens of a value made by tokenText: one more than its
\* spaces
tokensOf(value) == Cardinality({ i \in 1..Len(value) : value[i] = 32 }) + 1

\* C24 as stated: of two values that differ only in their number of
\* tokens, the one with fewer tokens has the strictly higher norm, for
\* every pair of token counts
C24_FewerTokensHigherNorm ==
    (outcome # Nothing /\ outcome.op = "norm") => outcome.shorter > outcome.longer

\* C24 (amended): the value with fewer tokens never has the lower norm,
\* and has the strictly higher norm whenever the longer value has at most
\* 69 tokens
C24_NormOrderUpToRounding ==
    (outcome # Nothing /\ outcome.op = "norm") =>
        /\ outcome.shorter >= outcome.longer
        /\ tokensOf(probe.longer) <= 69 => outcome.shorter > outcome.longer
        /\ outcome.shorter >= 1 /\ outcome.shorter <= 1000

\* values of 3 and of 4 tokens: norms 0.577 and 0.5
C24_Witness ==
    /\ outcome # Nothing
    /\ outcome.op = "norm"
    /\ tokensOf(probe.shorter) = 3
    /\ tokensOf(probe.longer) = 4
    /\ outcome.shorter = 577
    /\ outcome.longer = 500

(***************************************************************************)
(* Properties of the handlers step by step (SpecSteps).                    *)
(***************************************************************************)
\* the Fuse index holds one record per document of the collection, made
\* from that document
fuseInStep(ix) ==
    ix.fuse # NoFuse => ix.fuse.records = createIndex(ix.entries)

\* the index as a search may find it after the handler that ran last: no
\* update with its record removed and not added again, no rename with
\* neither path indexed, no record missing from the Fuse index
settledIndex(ix, t) ==
    /\ (t.op = "modify" /\ t.indexedBefore) => ix.indexMap[t.path] # NoEntry
    /\ (t.op = "rename" /\ t.indexedBefore /\ t.path.extension = "md") =>
          (ix.indexMap[t.path] # NoEntry /\ ix.indexMap[t.oldPath] = NoEntry)
    /\ fuseInStep(ix)

\* C26: a search never finds the index in the intermediate state of an
\* update (record removed, not yet added again), of a rename (neither the
\* old nor the new path indexed), or with a record of the collection
\* missing from the Fuse index
C26_SearchSeesSettledIndex ==
    [][lastCall'.op = "search" => settledIndex(index, task)]_vars

\* a search ran after the update of an indexed document went through both
\* of its steps, and found the document
C26_Witness ==
    /\ lastCall.op = "search"
    /\ task.op = "modify"
    /\ task.indexedBefore
    /\ ~task.suspended
    /\ index.fuse # NoFuse
    /\ task.path \in resultPaths(lastResult)

(***************************************************************************)
(* Properties of the search over a large vault (SpecRanking).              *)
(***************************************************************************)
\* Fuse.search(searchTerm) with no limit, merged as searchByStrategy merges
everyFuseMatch(ix, searchTerm, results, strategy, now) ==
    Let(FuseSearch(ix.fuse, ix.entries, searchTerm, -1),
      LAMBDA fuseResults :
        mergeFuseResults(results, fuseResults, Len(fuseResults), searchTerm, strategy,
                         now))

\* the documents some strategy matches, each with its final score
everyMatch(ix, query, now) ==
    LET decomposed == decomposeKoreanText(query)
    IN After(everyFuseMatch(ix, query, << >>, "direct", now),
         LAMBDA r1 :
           After(IF decomposed # query
                 THEN everyFuseMatch(ix, decomposed, r1, "decomposed", now)
                 ELSE r1,
             LAMBDA r2 :
               After(IF isInitialConsonantQuery(query)
                     THEN searchByInitialConsonants(ix, query, r2, now)
                     ELSE r2,
                 LAMBDA r3 :
                   IF isPartialSyllableQuery(query)
                   THEN searchByPartialSyllables(ix, query, r3, now)
                   ELSE r3)))

\* C27: no document that some strategy matches and that search leaves out
\* has a final score strictly higher than a document search returns
C27_HighestScoringReturned ==
    (outcome # Nothing /\ outcome.op = "search") =>
      Let(everyMatch(outcome.index, probe.query, Now),
        LAMBDA all :
          \A i \in 1..Len(all) :
             all[i].path \notin resultPaths(outcome.value) =>
               \A j \in 1..Len(outcome.value) :
                  all[i].score <= outcome.value[j].score)

(***************************************************************************)
(* Properties of the pattern grammar (SpecGrammar).                        *)
(***************************************************************************)
\* the payload is not empty and has no marker of the grammar in it
plainPayload ==
    /\ probe.payload # << >>
    /\ \A i \in 1..Len(probe.payload) : probe.payload[i] \notin Markers

\* C28 as stated: !x matches exactly when =x does not, !^x exactly when ^x
\* does not, !x$ exactly when x$ does not, for every payload and text
C28_NegationOfExactPrefixSuffix ==
    (outcome # Nothing /\ outcome.op = "extended"
       /\ probe.pair.kind \in { "exact", "prefix", "suffix" }) =>
      (outcome.negative <=> ~outcome.positive)

\* C28: for a payload x without markers, !x matches a text exactly when the
\* inclusion token 'x does not, !^x exactly when ^x does not, and !x$
\* exactly when x$ does not
C28_NegationOfIncludePrefixSuffix ==
    (outcome # Nothing /\ outcome.op = "extended" /\ plainPayload
       /\ probe.pair.kind \in { "include", "prefix", "suffix" }) =>
      (outcome.negative <=> ~outcome.positive)

\* "ab" has the payload "a" in it and is not "a": 'a matches it and !a
\* does not
C28_Witness ==
    /\ outcome # Nothing
    /\ outcome.op = "extended"
    /\ probe.pair.kind = "include"
    /\ plainPayload
    /\ probe.text # toLowerCase(probe.payload)
    /\ outcome.positive
    /\ ~outcome.negative

(***************************************************************************)
(* Properties of the decomposition of one block (SpecBlocks).              *)
(***************************************************************************)
\* C29 as stated: the decomposition of a block has 2 or 3 units
C29_TwoOrThreeUnits ==
    (outcome # Nothing /\ outcome.op = "block") => Len(outcome.value) \in { 2, 3 }

\* the units that are not compound: leading consonants, and the vowels and
\* trailing consonants the tables give as one unit
atomicUnits ==
    { CHO[i] : i \in 1..Len(CHO) }
      \cup { JUNG[i][1] : i \in { j \in 1..Len(JUNG) : Len(JUNG[j]) = 1 } }
      \cup { JONG[i][1] : i \in { j \in 1..Len(JONG) : Len(JONG[j]) = 1 } }

\* C29: the decomposition of a block has 2 to 5 units, every one of them
\* atomic: a leading consonant, then one or two vowel units, then at most
\* two trailing consonants
C29_TwoToFiveAtomicUnits ==
    (outcome # Nothing /\ outcome.op = "block") =>
        /\ Len(outcome.value) \in 2..5
        /\ \A i \in 1..Len(outcome.value) : outcome.value[i] \in atomicUnits
        /\ isCho(outcome.value[1])
        /\ isJung(outcome.value[2])
        /\ \A i \in 4..Len(outcome.value) : isConsonant(outcome.value[i])

\* 뷁 has the compound vowel ㅞ and the compound trailing consonant ㄺ: five
\* units
C29_Witness ==
    /\ outcome # Nothing
    /\ outcome.op = "block"
    /\ probe.block = 48577
    /\ outcome.value = << 12610, 12636, 12628, 12601, 12593 >>

(***************************************************************************)
(* Properties of Fuse.add and Fuse.removeAt (SpecFuse).                    *)
(***************************************************************************)
\* C30: the record at position k carries the positional index k and is the
\* record of the document at position k of the source array, and every
\* search result names by refIndex the document it hands out, which is the
\* document its record was made from
C30_RecordsFollowDocs ==
    outcome # Nothing =>
        /\ Len(outcome.records) = Len(outcome.docs)
        /\ \A k \in 1..Len(outcome.records) :
              /\ outcome.records[k].i = k - 1
              /\ outcome.records[k] = addObject(outcome.docs[k], k - 1)
        /\ \A j \in 1..Len(outcome.result) :
              /\ outcome.result[j].refIndex \in 0..(Len(outcome.docs) - 1)
              /\ outcome.result[j].item = outcome.docs[outcome.result[j].refIndex + 1]

\* a search after a removal that moved later records up found 나 at the
\* position it has now
C30_Witness ==
    /\ outcome # Nothing
    /\ outcome.op = "search"
    /\ outcome.shifted
    /\ \E j \in 1..Len(outcome.result) :
          /\ outcome.result[j].item.display = << 45208 >>
          /\ outcome.docs[outcome.result[j].refIndex + 1].display = << 45208 >>

(***************************************************************************)
(* The strategies one query runs (SpecQuery): search and                   *)
(* performKoreanSearch on every short query over a small alphabet.         *)
(***************************************************************************)
\* most units of a query
MaxQueryLen == 3

\* the leading consonants ㄱ ㅎ, the compound trailing consonants ㄳ ㅄ, the
\* vowel ㅏ, the block 가 and the other character "a"
QueryUnits == { 12593, 12622, 12595, 12612, 12623, 44032, 97 }

\* search(query), performKoreanSearch(query): the strategies that run
strategiesRun(query) ==
    IF trim(query) = << >> THEN {}
    ELSE { "direct" }
         \cup (IF decomposeKoreanText(query) # query THEN { "decomposed" } ELSE {})
         \cup (IF isInitialConsonantQuery(query) THEN { "initial-consonant" } ELSE {})
         \cup (IF isPartialSyllableQuery(query) THEN { "partial-syllable" } ELSE {})

InitQuery ==
    /\ Idle
    /\ probe \in { [ query |-> q ] : q \in Texts(QueryUnits, MaxQueryLen) }
    /\ outcome = Nothing

\* index.search(probe.query, limit)
RunStrategies ==
    /\ outcome = Nothing
    /\ outcome' = [ op |-> "strategies", value |-> strategiesRun(probe.query) ]
    /\ UNCHANGED << plugin, probe >>

NextQuery == RunStrategies

SpecQuery == InitQuery /\ [][NextQuery]_vars

\* C31: the initial-consonant strategy runs exactly when the query is not
\* empty and every character of it is one of the 19 leading consonants (CHO)
C31_InitialOnlyForLeadingConsonants ==
    (outcome # Nothing /\ outcome.op = "strategies") =>
        (("initial-consonant" \in outcome.value)
           <=> (/\ probe.query # << >>
                /\ \A i \in 1..Len(probe.query) : isCho(probe.query[i])))

(***************************************************************************)
(* The content reads of one search (SpecReads): index.build() over a vault *)
(* of up to MaxReadDocs documents, index.search, then the batches of       *)
(* loadContentForTopResults one after the other.                           *)
(***************************************************************************)
\* most documents of the vault
MaxReadDocs == 25

ReadDocs == { 1, 4, 6, 20, 21, MaxReadDocs }

ReadLimits == { 1, 11, 50 }

\* the versions of the files of a vault of n documents: small and modified
\* a day ago, but for document `stale`: large and modified nine days ago
readVersions(n, stale) ==
    [ k \in 1..n |->
        IF k = stale
        THEN [ content |-> << 120 >>, size |-> 2000, mtime |-> 1 * (1000 * 60 * 60 * 24) ]
        ELSE [ content |-> << 111 >>, size |-> 500, mtime |-> 9 * (1000 * 60 * 60 * 24) ] ]

\* the vault by path, and getMarkdownFiles()
readVault(n, stale) ==
    [ p \in { docPath(k) : k \in 1..n } |->
        readVersions(n, stale)[CHOOSE k \in 1..n : docPath(k) = p] ]
readFiles(n, stale) == [ k \in 1..n |-> TFile(docPath(k), readVersions(n, stale)[k]) ]

InitReads ==
    /\ Idle
    /\ probe \in { [ n |-> n, stale |-> stale, query |-> query, limit |-> limit ] :
                     n \in ReadDocs, stale \in 1..MaxReadDocs,
                     query \in DocQueries, limit \in ReadLimits }
    /\ probe.stale \in { 1, probe.n }
    /\ outcome = Nothing

\* index.build() over the vault, then index.search(query, limit) up to its
\* return: loadContentForTopResults(topResults.slice(0, 20)) has started the
\* reads of its first batch
SearchDocs ==
    /\ outcome = Nothing
    /\ \E ix \in { build(newIndex({ docPath(k) : k \in 1..probe.n }),
                         readFiles(probe.n, probe.stale), fuzzyThreshold) } :
         \E sorted \in { sortedResults(ix, probe.query, Now) } :
           \E top \in { Slice0(topSlice(sorted, probe.limit), TopK) } :
             \E first \in { startReads(ix, readVault(probe.n, probe.stale),
                                       Slice0(top, BatchSize)) } :
                outcome' = [ op |-> "search", index |-> ix, results |-> sorted,
                             reading |-> first, reads |-> first,
                             queue |-> SubSeq(top, BatchSize + 1, Len(top)) ]
    /\ UNCHANGED << plugin, probe >>

\* the cachedReads of a batch have resolved and filled the cache; the next
\* batch of loadContentForTopResults starts its reads
BatchDone ==
    /\ outcome # Nothing
    /\ outcome.reading # {} \/ outcome.queue # << >>
    /\ LET files == readVault(probe.n, probe.stale)
           preview(p) == SubSeq(files[p].content, 1, Min2(PreviewLen, Len(files[p].content)))
           ix == [ outcome.index EXCEPT !.contentCache =
                     [ p \in DOMAIN @ |->
                         IF p \in outcome.reading
                         THEN [ content |-> preview(p),
                                contentJamo |-> decomposeKoreanText(preview(p)) ]
                         ELSE @[p] ] ]
           nb == nextBatch(ix, files, {}, outcome.queue)
       IN outcome' = [ outcome EXCEPT !.op = "batch", !.index = ix,
                                      !.reading = nb.reading,
                                      !.reads = @ \cup nb.reading,
                                      !.queue = nb.pending ]
    /\ UNCHANGED << plugin, probe >>

NextReads ==
    \/ SearchDocs
    \/ BatchDone

SpecReads == InitReads /\ [][NextReads]_vars

\* the results of the search that score more than the result for path p
scoringAbove(results, p) ==
    { i \in 1..Len(results) :
        \E j \in 1..Len(results) :
            results[j].path = p /\ results[i].score > results[j].score }

\* C32: the content reads a search has started are reads of at most 20
\* documents, each a result of that search that fewer than 20 of its results
\* outscore
C32_ReadsWithinTopResults ==
    outcome # Nothing =>
        /\ Cardinality(outcome.reads) <= TopK
        /\ \A p \in outcome.reads :
              /\ \E j \in 1..Len(outcome.results) : outcome.results[j].path = p
              /\ Cardinality(scoringAbove(outcome.results, p)) < TopK

\* the last batch of a search with 21 results is done: 20 documents were
\* read and the lowest-scoring one was not
C32_Witness ==
    /\ outcome # Nothing
    /\ outcome.op = "batch"
    /\ outcome.queue = << >>
    /\ outcome.reading = {}
    /\ Len(outcome.results) = 21
    /\ probe.stale = 1
    /\ Cardinality(outcome.reads) = TopK
    /\ docPath(1) \notin outcome.reads

(***************************************************************************)
(* Properties of the content cache (SpecCache): queries and hydration      *)
(* while documents are edited and the index is rebuilt or cleared.         *)
(***************************************************************************)
NextCache ==
    \/ Build
    \/ Clear
    \/ Delete
    \/ Modify
    \/ Search
    \/ ReadDone
    \/ ReadFail

SpecCache == Init /\ [][NextCache]_vars

\* C33: while a path has cached content, no step starts a read of the path,
\* and the path keeps its cached content through every step but build() and
\* clear()
C33_CachedContentIsNotReadAgain ==
    [][\A p \in Paths :
          index.contentCache[p] # NoEntry =>
              \/ lastCall'.op \in { "build", "clear" }
              \/ /\ index'.contentCache[p] # NoEntry
                 /\ p \in reading' => p \in reading]_vars

\* a search has returned a document whose content is cached, after the
\* document was edited, and reads nothing
C33_Witness ==
    /\ lastCall.op = "search"
    /\ reading = {}
    /\ \E p \in resultPaths(lastResult) :
          /\ index.contentCache[p] # NoEntry
          /\ vault[p] # NoFile
          /\ index.contentCache[p].content # Slice0(vault[p].content, PreviewLen)

\* a record without its content fields
withoutContent(entry) ==
    [ entry EXCEPT !.content = << >>, !.contentJamo = << >>, !.contentLoaded = FALSE ]

\* C34: the write of a content read that resolves keeps the number of
\* records, their order and every field of them but the content fields,
\* keeps the paths the map holds, and changes the cache of no other path
C34_HydrationWriteKeepsRecords ==
    [][lastCall'.op = "readDone" =>
          /\ getIndexedCount(index') = getIndexedCount(index)
          /\ \A i \in 1..Len(index.entries) :
                withoutContent(index'.entries[i]) = withoutContent(index.entries[i])
          /\ \A p \in Paths :
                (index'.indexMap[p] = NoEntry) <=> (index.indexMap[p] = NoEntry)
          /\ \A p \in Paths \ { lastCall'.path } :
                index'.contentCache[p] = index.contentCache[p]]_vars

\* the read of a document resolved after clear() had emptied the index: its
\* content is cached and the index has no record
C34_Witness ==
    /\ lastCall.op = "readDone"
    /\ phase = "cleared"
    /\ getIndexedCount(index) = 0
    /\ index.contentCache[lastCall.path] # NoEntry

(***************************************************************************)
(* Properties of the records the lifecycle creates (SpecMetadata): build   *)
(* and the create, rename and modify events, with queries and hydration    *)
(* in between.                                                             *)
(***************************************************************************)
NextMetadata ==
    \/ Build
    \/ Create
    \/ Rename
    \/ Modify
    \/ Search
    \/ ReadDone

SpecMetadata == Init /\ [][NextMetadata]_vars

\* C35: build() and the create, modify and rename handlers start no content
\* read, and every record of the index they leave is metadata-only
C35_LifecycleReadsNoContent ==
    [][lastCall'.op \in { "build", "create", "modify", "rename" } =>
          /\ reading' \subseteq reading
          /\ \A i \in 1..Len(index'.entries) :
                /\ ~index'.entries[i].contentLoaded
                /\ index'.entries[i].content = << >>
                /\ index'.entries[i].contentJamo = << >>]_vars

\* a document whose content a search had read and cached was modified: its
\* new record is metadata-only and nothing is being read
C35_Witness ==
    /\ lastCall.op = "modify"
    /\ reading = {}
    /\ index.contentCache[lastCall.path] # NoEntry
    /\ index.indexMap[lastCall.path] # NoEntry
    /\ ~index.indexMap[lastCall.path].contentLoaded

(***************************************************************************)
(* Properties of a build that runs to its end (SpecBuilds): the            *)
(* progressive build with the create and modify events that arrive between *)
(* its batches.  Nothing removes a record: no document is deleted or       *)
(* renamed (updateOnRename calls removeFile) and nothing calls clear(), so *)
(* the documents getMarkdownFiles() listed are in the vault, under the     *)
(* paths they had, when the last batch has run.                            *)
(* The timer a batch waits behind fires: ProgressiveBatch is weakly fair.  *)
(***************************************************************************)
NextBuilds ==
    \/ ProgressiveStart
    \/ ProgressiveBatch
    \/ Create
    \/ Modify

SpecBuilds == Init /\ [][NextBuilds]_vars /\ WF_vars(ProgressiveBatch)

\* C36: a build that has batches left to run reaches its last batch, and
\* in the state its last batch leaves every markdown document of the vault
\* (the listed ones among them) has a metadata-only record in the map and
\* in the list
C36_BuildFinishesWithEveryDocument ==
    /\ (phase = "building") ~> (phase = "built")
    /\ [](lastCall.op \in {"progressiveStart", "progressiveBatch"} /\ phase = "built" =>
            \A p \in Present \cap MdPaths :
                /\ index.indexMap[p] # NoEntry
                /\ ~index.indexMap[p].contentLoaded
                /\ \E i \in 1..Len(index.entries) : index.entries[i].path = p)

\* a build of two batches has finished: both documents have a record
C36_Witness ==
    /\ lastCall.op = "progressiveBatch"
    /\ phase = "built"
    /\ cursor = << >>
    /\ Cardinality(Present \cap MdPaths) = 2
    /\ getIndexedCount(index) = 2

(***************************************************************************)
(* Properties of the index under every operation (SpecOperations): the     *)
(* build of the settings tab, the progressive build of onload, the vault   *)
(* events and clear(), each handler run to its end.                        *)
(***************************************************************************)
NextOperations ==
    \/ Build
    \/ ProgressiveStart
    \/ ProgressiveBatch
    \/ Create
    \/ Delete
    \/ Rename
    \/ Modify
    \/ Clear

SpecOperations == Init /\ [][NextOperations]_vars

\* the paths the map holds a record for
mappedPaths(ix) == { p \in DOMAIN ix.indexMap : ix.indexMap[p] # NoEntry }

\* the files a call of addFileMetadata is made for in the step at hand, in
\* the order of the calls: the created file, or the files of the batch
addedFiles ==
    CASE lastCall'.op = "create" /\ lastCall'.path.extension = Extension ->
            << TFile(lastCall'.path, vault'[lastCall'.path]) >>
      [] lastCall'.op = "progressiveBatch" ->
            batchFiles(Slice0(cursor, ProgressiveBatchSize))
      [] OTHER -> << >>

\* C37: the list holds one record per path, the map holds the records of
\* the list under their paths and nothing else, count() is the number of
\* indexed paths; and a file added under a path, indexed already or not,
\* leaves the record made of it, and count() grows by the number of paths
\* that had no record
C37_OneRecordPerPath ==
    /\ [](/\ \A i, j \in 1..Len(index.entries) :
                index.entries[i].path = index.entries[j].path => i = j
          /\ mappedPaths(index) = indexedPaths(index)
          /\ \A i \in 1..Len(index.entries) :
                index.indexMap[index.entries[i].path] = index.entries[i]
          /\ getIndexedCount(index) = Cardinality(mappedPaths(index)))
    /\ [][LET added == SelectSeq(addedFiles, LAMBDA f : f.extension = Extension)
              paths == { added[i].path : i \in 1..Len(added) }
          IN lastCall'.op \in { "create", "progressiveBatch" } =>
             /\ getIndexedCount(index') = getIndexedCount(index)
                    + Cardinality(paths \ mappedPaths(index))
             /\ \A i \in 1..Len(added) :
                    (\A j \in (i + 1)..Len(added) : added[j].path # added[i].path)
                        => index'.indexMap[added[i].path] = createMetadataEntry(added[i])]_vars

\* a create event has added a file under a path that had a record: the
\* record is the one made of the new file and it is the only record
C37_Witness ==
    /\ lastCall.op = "create"
    /\ lastCall.indexedBefore
    /\ index.indexMap[lastCall.path] = createMetadataEntry(TFile(lastCall.path, vault[lastCall.path]))
    /\ getIndexedCount(index) = 1

\* C38: a search leaves the list of records, record by record and in its
\* order, the map and count() as they were, and every stored score is 0
C38_SearchLeavesIndex ==
    [][lastCall'.op = "search" =>
          /\ index'.entries = index.entries
          /\ index'.indexMap = index.indexMap
          /\ indexedPaths(index') = indexedPaths(index)
          /\ getIndexedCount(index') = getIndexedCount(index)
          /\ \A i \in 1..Len(index'.entries) : index'.entries[i].score = 0]_vars

\* a search has returned a record with a score above 0 and started a read
\* for it, and the stored record of the path has score 0
C38_Witness ==
    /\ lastCall.op = "search"
    /\ \E k \in 1..Len(lastResult) :
          /\ lastResult[k].score > 0
          /\ lastResult[k].path \in reading
          /\ index.indexMap[lastResult[k].path] # NoEntry
          /\ index.indexMap[lastResult[k].path].score = 0

(***************************************************************************)
(* Properties of decomposeKoreanText applied twice (SpecDecompose).        *)
(***************************************************************************)
\* composed blocks 가 갃 과 까, bare units ㄱ ㄲ ㄳ ㅏ ㅘ (simple, doubled and
\* compound consonants, simple and compound vowels) and the other
\* character "a"
DecomposeUnits ==
    { 44032, 44035, 44284, 44620, 12593, 12594, 12595, 12623, 12632, 97 }

InitDecompose ==
    /\ Idle
    /\ probe \in { [ text |-> t ] : t \in Texts(DecomposeUnits, MaxTextLen) }
    /\ outcome = Nothing

\* decomposeKoreanText(text): the atomic field of a record, the atomic form
\* of a query
Decompose ==
    /\ outcome = Nothing
    /\ outcome' = [ op |-> "decompose", value |-> decomposeKoreanText(probe.text) ]
    /\ UNCHANGED << plugin, probe >>

\* decomposeKoreanText of what decomposeKoreanText returned
DecomposeAgain ==
    /\ outcome # Nothing
    /\ outcome.op = "decompose"
    /\ outcome' = [ op |-> "again", once |-> outcome.value,
                    value |-> decomposeKoreanText(outcome.value) ]
    /\ UNCHANGED << plugin, probe >>

NextDecompose ==
    \/ Decompose
    \/ DecomposeAgain

SpecDecompose == InitDecompose /\ [][NextDecompose]_vars

\* C39: decomposing a decomposed text gives the decomposed text
C39_DecomposeIsIdempotent ==
    (outcome # Nothing /\ outcome.op = "again") => outcome.value = outcome.once

\* a text with a block that has a compound trailing consonant, a bare
\* compound consonant and a bare compound vowel has been decomposed twice,
\* and the first decomposition changed it
C39_Witness ==
    /\ outcome # Nothing
    /\ outcome.op = "again"
    /\ probe.text = << 44035, 12595, 12632 >>
    /\ outcome.once = << 12593, 12623, 12593, 12613, 12593, 12613, 12631, 12623 >>
    /\ outcome.value = outcome.once

====
